---- MODULE Spec2Model ----
(***************************************************************************)
(* Model of the YouTube downloader core (src/downloader.py): URL           *)
(* validation and classification, the metadata resolvers, the single-item  *)
(* fetch ladder of download_video and the batch download.                  *)
(*                                                                         *)
(* Python strings are modelled as sequences of one-character strings, so   *)
(* that str.lower(), len() and the substring test `t in s` are computed     *)
(* on the characters, as the code computes them.  The extraction engine    *)
(* (yt_dlp) is external: every invocation nondeterministically succeeds or *)
(* raises one of the exceptions the code has handlers for.                 *)
(***************************************************************************)
EXTENDS Integers, Sequences, FiniteSets, TLC

VARIABLES
    pc,          \* position of the single worker: "idle", "ladder", "done"
    call,        \* the entry point being executed and its arguments
    rung,        \* download_video: the next rung of _try_download_with_fallbacks
    attempts,    \* observation: rungs on which the engine's download was invoked, in order
    lastOutcome, \* observation: how the most recent engine invocation ended
    primaryExc,  \* observation: the exception the primary attempt ended with
    engineCalls, \* observation: engine invocations made by the current call
    video_info,  \* get_video_and_playlist_info: the video info resolved first
    batch,       \* download_playlist: playlist_info, the index range and download_stats
    obs,         \* observation: what the engine was asked and what it reported
    result,      \* what the entry point returned or raised
    gui,         \* the GUI: its cancellation flag, its downloader's output_dir, its threads
    jobs         \* the download_playlist invocations that run at the same time

vars == <<pc, call, rung, attempts, lastOutcome, primaryExc, engineCalls, video_info, batch, obs, result, gui, jobs>>

\* the state of a downloader whose entry points are called one at a time
coreVars == <<pc, call, rung, attempts, lastOutcome, primaryExc, engineCalls, video_info, batch, obs, result>>

ladderVars == <<rung, attempts, lastOutcome, primaryExc>>

\* the download_playlist invocations that may run at the same time, on one downloader
\* or on several
Batches ==
    {"b1", "b2"}

\* lines 832-839: the download_stats a download_playlist invocation creates
NewStats ==
    [downloaded |-> 0, failed |-> 0, skipped |-> 0, errors |-> <<>>]

\* an invocation that has not been made: download_stats is the dict the invocation
\* created, result the stats it returned; observation: events are the events the engine
\* reported for the items of this invocation
NoJob ==
    [pc |-> "none", has_callback |-> FALSE, download_stats |-> NewStats,
     events |-> <<>>, result |-> NewStats]

NoJobs ==
    [b \in Batches |-> NoJob]

\* the threads that start_download may have running at once: the download button is
\* disabled only by a callback the thread schedules with root.after
Workers ==
    {"w1", "w2"}

\* the values self.output_var may hold when a thread reads it ("": nothing entered)
OutputPaths ==
    {"", "dir_a", "dir_b"}

\* upper bound on the items of the playlist a caller thread downloads
MaxItems ==
    2

\* how the call of downloader.download_video can end for the thread: a returned value
\* or the class of the exception an except clause of the thread catches
DownloadVideoResults ==
    {"True", "False", "InvalidURLError", "NetworkTimeoutError", "VideoUnavailableError",
     "YouTubeDownloaderError", "Exception"}

\* a thread that start_download has not started: output_path is what the thread read
\* from output_var, output_dir the local copy download_video took of self.output_dir;
\* observations: reported is the outcome shown to the user, cancelled_in_flight says
\* that cancel_download ran while the thread's download was in flight
NoWorker ==
    [pc |-> "none", output_path |-> "", output_dir |-> "", reported |-> "none",
     cancelled_in_flight |-> FALSE]

\* a thread that calls download_playlist on the downloader; `started` counts the items
\* the engine has started
NoPlaylistJob ==
    [pc |-> "none", started |-> 0]

\* YouTubeDownloaderGUI.__init__: YouTubeDownloader(timeout=30) with its default
\* output_dir, download_cancelled = False
\* the buttons start as they are built (gui.py 457-486: download_btn in its default
\* state, cancel_btn with state=tk.DISABLED); queue holds the callbacks handed to
\* root.after that the main loop has not run yet, applied the callbacks it has run
\* since the thread of that name was started
GuiInit ==
    [download_cancelled |-> FALSE, output_dir |-> "downloads",
     workers |-> [w \in Workers |-> NoWorker], playlist |-> NoPlaylistJob,
     queue |-> <<>>, applied |-> {}, download_btn |-> "normal",
     cancel_btn |-> "disabled"]

----------------------------------------------------------------------------
(* Python string primitives on character sequences *)

UpperChars ==
    <<"A","B","C","D","E","F","G","H","I","J","K","L","M",
      "N","O","P","Q","R","S","T","U","V","W","X","Y","Z">>

LowerChars ==
    <<"a","b","c","d","e","f","g","h","i","j","k","l","m",
      "n","o","p","q","r","s","t","u","v","w","x","y","z">>

\* the lower-case letter of each upper-case letter
LowerOf ==
    [c \in {UpperChars[i] : i \in 1..Len(UpperChars)} |->
        LowerChars[CHOOSE i \in 1..Len(UpperChars) : UpperChars[i] = c]]

\* str.lower() on one character
LowerChar(c) ==
    IF c \in DOMAIN LowerOf THEN LowerOf[c] ELSE c

\* str.lower(); SubSeq makes the result a sequence value, computed once
Lower(s) ==
    SubSeq([i \in 1..Len(s) |-> LowerChar(s[i])], 1, Len(s))

\* the substring test `t in s`
Contains(s, t) ==
    \E i \in 0..(Len(s) - Len(t)) : SubSeq(s, i + 1, i + Len(t)) = t

\* `not s.strip()`: the string is empty or all whitespace
IsBlank(s) ==
    \A i \in 1..Len(s) : s[i] \in {" ", "\t", "\n", "\r"}

\* a string of n copies of the character c
Pad(c, n) ==
    [i \in 1..n |-> c]

----------------------------------------------------------------------------
(* String constants of the code *)

T_403 ==
    <<"4","0","3">>

T_forbidden ==
    <<"f","o","r","b","i","d","d","e","n">>

T_timeout ==
    <<"t","i","m","e","o","u","t">>

T_timed_out ==
    <<"t","i","m","e","d"," ","o","u","t">>

T_private_video ==
    <<"p","r","i","v","a","t","e"," ","v","i","d","e","o">>

T_unavailable ==
    <<"u","n","a","v","a","i","l","a","b","l","e">>

T_no_space_left ==
    <<"n","o"," ","s","p","a","c","e"," ","l","e","f","t">>

T_ffmpeg ==
    <<"f","f","m","p","e","g">>

T_private ==
    <<"p","r","i","v","a","t","e">>

T_not_a_playlist ==
    <<"n","o","t"," ","a"," ","p","l","a","y","l","i","s","t">>

T_single_video ==
    <<"s","i","n","g","l","e"," ","v","i","d","e","o">>

D_youtube_com ==
    <<"y","o","u","t","u","b","e",".","c","o","m">>

D_www_youtube_com ==
    <<"w","w","w",".","y","o","u","t","u","b","e",".","c","o","m">>

D_youtu_be ==
    <<"y","o","u","t","u",".","b","e">>

D_m_youtube_com ==
    <<"m",".","y","o","u","t","u","b","e",".","c","o","m">>

D_music_youtube_com ==
    <<"m","u","s","i","c",".","y","o","u","t","u","b","e",".","c","o","m">>

I_list_eq ==
    <<"l","i","s","t","=">>

I_playlist_q ==
    <<"/","p","l","a","y","l","i","s","t","?">>

I_amp_list_eq ==
    <<"&","l","i","s","t","=">>

I_playlist_slash ==
    <<"p","l","a","y","l","i","s","t","/">>

M_watch_v ==
    <<"w","a","t","c","h","?","v","=">>

M_youtu_be_slash ==
    <<"y","o","u","t","u",".","b","e","/">>

AUDIO_DOWNLOAD_FAILED ==
    <<"A","l","l"," ","a","u","d","i","o"," ","d","o","w","n","l","o","a","d"," ","s","t","r","a","t","e","g","i","e","s"," ","f","a","i","l","e","d"," ","d","u","e"," ","t","o"," ","Y","o","u","T","u","b","e"," ","r","e","s","t","r","i","c","t","i","o","n","s"," ","(","H","T","T","P"," ","4","0","3",")",".","\n","\n","Y","o","u","T","u","b","e"," ","h","a","s"," ","b","e","c","o","m","e"," ","e","x","t","r","e","m","e","l","y"," ","a","g","g","r","e","s","s","i","v","e"," ","w","i","t","h"," ","a","u","d","i","o","-","o","n","l","y"," ","d","o","w","n","l","o","a","d","s","."," ","T","r","y",":","\n","1","."," ","U","p","d","a","t","e"," ","y","t","-","d","l","p",":"," ","p","i","p"," ","i","n","s","t","a","l","l"," ","-","-","u","p","g","r","a","d","e"," ","y","t","-","d","l","p","\n","2","."," ","W","a","i","t"," ","1","-","2"," ","h","o","u","r","s"," ","b","e","f","o","r","e"," ","t","r","y","i","n","g"," ","a","g","a","i","n","\n","3","."," ","T","r","y"," ","d","o","w","n","l","o","a","d","i","n","g"," ","a","s"," ","v","i","d","e","o"," ","f","i","r","s","t",","," ","t","h","e","n"," ","c","o","n","v","e","r","t"," ","t","o"," ","M","P","3"," ","l","o","c","a","l","l","y","\n","4","."," ","U","s","e"," ","a"," ","V","P","N"," ","t","o"," ","c","h","a","n","g","e"," ","y","o","u","r"," ","l","o","c","a","t","i","o","n","\n","5","."," ","T","r","y"," ","d","o","w","n","l","o","a","d","i","n","g"," ","d","u","r","i","n","g"," ","o","f","f","-","p","e","a","k"," ","h","o","u","r","s"," ","(","l","a","t","e"," ","n","i","g","h","t","/","e","a","r","l","y"," ","m","o","r","n","i","n","g",")","\n","6","."," ","C","h","e","c","k"," ","i","f"," ","t","h","e"," ","v","i","d","e","o"," ","h","a","s"," ","c","o","p","y","r","i","g","h","t"," ","r","e","s","t","r","i","c","t","i","o","n","s"," ","i","n"," ","y","o","u","r"," ","r","e","g","i","o","n","\n","\n","*"," ","A","l","t","e","r","n","a","t","i","v","e",":"," ","D","o","w","n","l","o","a","d"," ","a","s"," ","v","i","d","e","o"," ","(","w","h","i","c","h"," ","w","o","r","k","s"," ","m","o","r","e"," ","r","e","l","i","a","b","l","y",")"," ","t","h","e","n"," ","u","s","e"," ","a"," ","l","o","c","a","l"," ","t","o","o","l"," ","t","o"," ","c","o","n","v","e","r","t"," ","t","o"," ","M","P","3",".","\n","\n","A","u","d","i","o"," ","d","o","w","n","l","o","a","d","s"," ","a","r","e"," ","s","i","g","n","i","f","i","c","a","n","t","l","y"," ","m","o","r","e"," ","l","i","k","e","l","y"," ","t","o"," ","b","e"," ","b","l","o","c","k","e","d"," ","t","h","a","n"," ","v","i","d","e","o"," ","d","o","w","n","l","o","a","d","s",".">>

VIDEO_DOWNLOAD_FAILED ==
    <<"A","l","l"," ","d","o","w","n","l","o","a","d"," ","s","t","r","a","t","e","g","i","e","s"," ","f","a","i","l","e","d"," ","d","u","e"," ","t","o"," ","Y","o","u","T","u","b","e"," ","r","e","s","t","r","i","c","t","i","o","n","s"," ","(","H","T","T","P"," ","4","0","3",")",".","\n","\n","Y","o","u","T","u","b","e"," ","f","r","e","q","u","e","n","t","l","y"," ","u","p","d","a","t","e","s"," ","t","h","e","i","r"," ","a","n","t","i","-","b","o","t"," ","m","e","a","s","u","r","e","s","."," ","T","r","y",":","\n","1","."," ","U","p","d","a","t","e"," ","y","t","-","d","l","p",":"," ","p","i","p"," ","i","n","s","t","a","l","l"," ","-","-","u","p","g","r","a","d","e"," ","y","t","-","d","l","p","\n","2","."," ","W","a","i","t"," ","1","0","-","1","5"," ","m","i","n","u","t","e","s"," ","b","e","f","o","r","e"," ","t","r","y","i","n","g"," ","a","g","a","i","n","\n","3","."," ","T","r","y"," ","a"," ","d","i","f","f","e","r","e","n","t"," ","v","i","d","e","o"," ","q","u","a","l","i","t","y","\n","4","."," ","C","h","e","c","k"," ","i","f"," ","t","h","e"," ","v","i","d","e","o"," ","i","s"," ","a","v","a","i","l","a","b","l","e"," ","i","n"," ","y","o","u","r"," ","r","e","g","i","o","n">>

----------------------------------------------------------------------------
(* Messages the engine's exceptions carry (inputs) *)

Msg403 ==
    <<"H","T","T","P"," ","E","r","r","o","r"," ","4","0","3",":"," ","F","o","r","b","i","d","d","e","n">>

MsgForbiddenUpper ==
    <<"A","C","C","E","S","S"," ","F","O","R","B","I","D","D","E","N">>

Msg403Timeout ==
    <<"H","T","T","P"," ","E","r","r","o","r"," ","4","0","3"," ","a","f","t","e","r"," ","t","i","m","e","o","u","t">>

Msg403Unavailable ==
    <<"4","0","3",":"," ","V","i","d","e","o"," ","u","n","a","v","a","i","l","a","b","l","e">>

MsgTimedOut ==
    <<"R","e","a","d"," ","t","i","m","e","d"," ","o","u","t">>

MsgTimeout ==
    <<"C","o","n","n","e","c","t","i","o","n"," ","t","i","m","e","o","u","t">>

MsgPrivateVideo ==
    <<"P","r","i","v","a","t","e"," ","v","i","d","e","o">>

MsgPrivatePlaylist ==
    <<"T","h","i","s"," ","p","l","a","y","l","i","s","t"," ","i","s"," ","p","r","i","v","a","t","e">>

MsgUnavailableTimeout ==
    <<"V","i","d","e","o"," ","u","n","a","v","a","i","l","a","b","l","e"," ","(","t","i","m","e","o","u","t",")">>

MsgTimeoutNoSpace ==
    <<"t","i","m","e","o","u","t",":"," ","N","o"," ","s","p","a","c","e"," ","l","e","f","t">>

MsgNoSpace ==
    <<"N","o"," ","s","p","a","c","e"," ","l","e","f","t"," ","o","n"," ","d","e","v","i","c","e">>

MsgNoSpaceFfmpeg ==
    <<"N","o"," ","s","p","a","c","e"," ","l","e","f","t"," ","(","f","f","m","p","e","g",")">>

MsgFfmpeg ==
    <<"f","f","m","p","e","g"," ","n","o","t"," ","f","o","u","n","d">>

MsgNotAPlaylist ==
    <<"T","h","i","s"," ","i","s"," ","n","o","t"," ","a"," ","p","l","a","y","l","i","s","t">>

MsgOther ==
    <<"U","n","s","u","p","p","o","r","t","e","d"," ","U","R","L">>

MsgUrlTimedOut ==
    <<"<","u","r","l","o","p","e","n"," ","e","r","r","o","r"," ","t","i","m","e","d"," ","o","u","t",">">>

MsgUrlRefused ==
    <<"<","u","r","l","o","p","e","n"," ","e","r","r","o","r"," ","r","e","f","u","s","e","d",">">>

MsgBoom ==
    <<"b","o","o","m">>

----------------------------------------------------------------------------
(* URLs given by callers (inputs) *)

U_watch ==
    <<"h","t","t","p","s",":","/","/","w","w","w",".","y","o","u","t","u","b","e",".","c","o","m","/","w","a","t","c","h","?","v","=","a","B","1">>

U_short ==
    <<"h","t","t","p","s",":","/","/","y","o","u","t","u",".","b","e","/","a","B","1">>

U_mobile ==
    <<"h","t","t","p","s",":","/","/","m",".","y","o","u","t","u","b","e",".","c","o","m","/","w","a","t","c","h","?","v","=","a","B","1">>

U_playlist ==
    <<"h","t","t","p","s",":","/","/","w","w","w",".","y","o","u","t","u","b","e",".","c","o","m","/","p","l","a","y","l","i","s","t","?","l","i","s","t","=","P","L","9">>

U_music_pl ==
    <<"h","t","t","p","s",":","/","/","m","u","s","i","c",".","y","o","u","t","u","b","e",".","c","o","m","/","p","l","a","y","l","i","s","t","/","P","L","9">>

U_hybrid ==
    <<"h","t","t","p","s",":","/","/","w","w","w",".","y","o","u","t","u","b","e",".","c","o","m","/","w","a","t","c","h","?","v","=","a","B","1","&","l","i","s","t","=","P","L","9">>

U_short_hybrid ==
    <<"h","t","t","p","s",":","/","/","y","o","u","t","u",".","b","e","/","a","B","1","?","l","i","s","t","=","P","L","9">>

U_upper ==
    <<"H","T","T","P","S",":","/","/","W","W","W",".","Y","O","U","T","U","B","E",".","C","O","M","/","W","A","T","C","H","?","V","=","a","B","1","&","L","I","S","T","=","P","L","9">>

U_other ==
    <<"h","t","t","p","s",":","/","/","v","i","m","e","o",".","c","o","m","/","1","2","3">>

U_spoof ==
    <<"h","t","t","p","s",":","/","/","e","v","i","l",".","e","x","a","m","p","l","e","/","?","n","e","x","t","=","y","o","u","t","u","b","e",".","c","o","m">>

U_blank ==
    <<" "," ">>

\* the parts URLs are put together from: scheme and host, path, query
H_www ==
    <<"h","t","t","p","s",":","/","/","w","w","w",".","y","o","u","t","u","b","e",".","c","o","m">>

H_short ==
    <<"h","t","t","p","s",":","/","/","y","o","u","t","u",".","b","e">>

H_mobile ==
    <<"h","t","t","p","s",":","/","/","m",".","y","o","u","t","u","b","e",".","c","o","m">>

H_music ==
    <<"h","t","t","p","s",":","/","/","m","u","s","i","c",".","y","o","u","t","u","b","e",".","c","o","m">>

H_upper ==
    <<"H","T","T","P","S",":","/","/","W","W","W",".","Y","O","U","T","U","B","E",".","C","O","M">>

H_bare ==
    <<"y","o","u","t","u","b","e",".","c","o","m">>

H_vimeo ==
    <<"h","t","t","p","s",":","/","/","v","i","m","e","o",".","c","o","m">>

H_evil ==
    <<"h","t","t","p","s",":","/","/","e","v","i","l",".","e","x","a","m","p","l","e">>

P_watch ==
    <<"/","w","a","t","c","h">>

P_playlist ==
    <<"/","p","l","a","y","l","i","s","t">>

P_id ==
    <<"/","a","B","1">>

P_playlist_id ==
    <<"/","p","l","a","y","l","i","s","t","/","P","L","9">>

Q_v ==
    <<"?","v","=","a","B","1">>

Q_list ==
    <<"?","l","i","s","t","=","P","L","9">>

Q_v_list ==
    <<"?","v","=","a","B","1","&","l","i","s","t","=","P","L","9">>

Q_list_v ==
    <<"?","l","i","s","t","=","P","L","9","&","v","=","a","B","1">>

Q_upper ==
    <<"?","V","=","a","B","1","&","L","I","S","T","=","P","L","9">>

Q_escaped ==
    <<"?","v","=","a","%","2","6","b","&","l","i","s","t","=","P","L","9">>

Q_next ==
    <<"?","n","e","x","t","=","y","o","u","t","u","b","e",".","c","o","m">>

Q_share ==
    <<"?","s","i","=","y","o","u","t","u",".","b","e","/">>


----------------------------------------------------------------------------
(* Configuration (src/config/download_config.py) *)

MAX_URL_LENGTH ==
    2048

YOUTUBE_DOMAINS ==
    <<D_youtube_com, D_www_youtube_com, D_youtu_be, D_m_youtube_com, D_music_youtube_com>>

PLAYLIST_INDICATORS ==
    <<I_list_eq, I_playlist_q, I_amp_list_eq, I_playlist_slash>>

----------------------------------------------------------------------------
(* Bounds and input sets *)

\* URLs longer than MAX_URL_LENGTH have MAX_URL_LENGTH + 1 .. MAX_URL_LENGTH + MaxOver characters
MaxOver ==
    1

\* a valid watch URL padded to exactly n characters
PaddedUrl(n) ==
    U_watch \o <<"&","t","=">> \o Pad("0", n - Len(U_watch) - 3)

U_maxlen ==
    PaddedUrl(MAX_URL_LENGTH)

LongUrls ==
    {PaddedUrl(MAX_URL_LENGTH + k) : k \in 1..MaxOver}

\* the URLs the entry points are called with
URLs ==
    {U_watch, U_playlist, U_hybrid, U_short_hybrid, U_other, U_spoof, U_blank, <<>>, U_maxlen}
        \cup LongUrls

Hosts ==
    {H_www, H_short, H_mobile, H_music, H_upper, H_bare, H_vimeo, H_evil}

Paths ==
    {<<>>, P_watch, P_playlist, P_id, P_playlist_id}

Queries ==
    {<<>>, Q_v, Q_list, Q_v_list, Q_list_v, Q_upper, Q_escaped, Q_next, Q_share}

\* the URLs the URL helpers are applied to
HelperUrls ==
    {h \o p \o q : h \in Hosts, p \in Paths, q \in Queries}
        \cup {U_short, U_mobile, U_music_pl, U_upper} \cup URLs

\* messages of the engine's DownloadError
EngineMessages ==
    {Msg403, MsgForbiddenUpper, Msg403Timeout, Msg403Unavailable, MsgTimedOut, MsgTimeout,
     MsgPrivateVideo, MsgPrivatePlaylist, MsgUnavailableTimeout, MsgTimeoutNoSpace,
     MsgNoSpace, MsgNoSpaceFfmpeg, MsgFfmpeg, MsgNotAPlaylist, MsgOther}

\* str(e) of a urllib.error.URLError
UrlErrorMessages ==
    {MsgUrlTimedOut, MsgUrlRefused}

----------------------------------------------------------------------------
(* Exceptions and results *)

Exc(t, m) ==
    [type |-> t, msg |-> m, tag |-> "", count |-> 0]

Ok ==
    Exc("ok", <<>>)

\* how one engine invocation can end: normally, or raising an exception
EngineRaises ==
    {Exc("DownloadError", m) : m \in EngineMessages}
        \cup {Exc("URLError", m) : m \in UrlErrorMessages}
        \cup {Exc("socket.timeout", T_timed_out), Exc("KeyboardInterrupt", <<>>),
              Exc("Exception", MsgBoom)}

DownloadOutcomes ==
    {Ok} \cup EngineRaises

\* extract_info(url, download=False) returning a dict: its '_type' ("absent" when the
\* key is missing) and the number of its 'entries'
Info(tag, count) ==
    [type |-> "info", msg |-> <<>>, tag |-> tag, count |-> count]

\* extract_info returning None
NoneInfo ==
    Exc("None", <<>>)

InfoTags ==
    {"playlist", "video", "absent"}

EntryCounts ==
    {0, 1, 30, 200, 201, 250}

\* a playlist dict has entries, the dict of a video has none
ExtractOutcomes ==
    {Info("playlist", n) : n \in EntryCounts} \cup {Info(t, 0) : t \in InfoTags \ {"playlist"}}
        \cup {NoneInfo} \cup EngineRaises

NoValue ==
    [kind |-> "none"]

NoResult ==
    [status |-> "none", type |-> "", template |-> "", details |-> <<>>, value |-> NoValue,
     inner_type |-> "", inner_template |-> "", count |-> 0, threshold |-> 0]

Returned(v) ==
    [status |-> "returned", type |-> "", template |-> "", details |-> <<>>, value |-> v,
     inner_type |-> "", inner_template |-> "", count |-> 0, threshold |-> 0]

\* raise <type>(<template>.format(<details>))
Raised(type, template, details) ==
    [status |-> "raised", type |-> type, template |-> template, details |-> details,
     value |-> NoValue, inner_type |-> "", inner_template |-> "", count |-> 0, threshold |-> 0]

\* raise PlaylistTooLargeError(PLAYLIST_TOO_LARGE.format(count=..., threshold=...))
RaisedTooLarge(count, threshold) ==
    [Raised("PlaylistTooLargeError", "PLAYLIST_TOO_LARGE", <<>>)
        EXCEPT !.count = count, !.threshold = threshold]

\* except Exception as e: raise <type>(<template>.format(str(e))), e being the raised r
Wrapped(type, template, r) ==
    [status |-> "raised", type |-> type, template |-> template, details |-> r.details,
     value |-> NoValue, inner_type |-> r.type, inner_template |-> r.template,
     count |-> r.count, threshold |-> r.threshold]

\* an exception of the engine leaving the entry point as it is
Propagated(e) ==
    Raised(e.type, "", e.msg)

----------------------------------------------------------------------------
(* Error predicates *)

_error_contains(exc, tokens) ==
    LET error_msg == Lower(exc.msg)
    IN  \E t \in tokens : Contains(error_msg, Lower(t))

\* variant of _is_http_403_error that looks for 'forbidden' alone
_is_http_403_error_forbidden_only(exc) ==
    _error_contains(exc, {T_forbidden})

_is_http_403_error(exc) ==
    _error_contains(exc, {T_403, T_forbidden})

_is_timeout_error(exc) ==
    _error_contains(exc, {T_timeout, T_timed_out})

_is_private_video_error(exc) ==
    _error_contains(exc, {T_private_video, T_unavailable})

_is_disk_space_error(exc) ==
    _error_contains(exc, {T_no_space_left})

_is_ffmpeg_error(exc) ==
    _error_contains(exc, {T_ffmpeg})

----------------------------------------------------------------------------
(* URL validation and classification *)

_is_valid_url(url) ==
    \E i \in 1..Len(YOUTUBE_DOMAINS) : Contains(Lower(url), YOUTUBE_DOMAINS[i])

\* "ok", or the InvalidURLError raised
_validate_url(url) ==
    IF Len(url) = 0 \/ IsBlank(url)
    THEN Raised("InvalidURLError", "URL_EMPTY", <<>>)
    ELSE IF Len(url) > MAX_URL_LENGTH
    THEN Raised("InvalidURLError", "URL_TOO_LONG", <<>>)
    ELSE IF ~_is_valid_url(url)
    THEN Raised("InvalidURLError", "INVALID_URL_FORMAT", <<>>)
    ELSE NoResult

_is_playlist_url(url) ==
    IF ~_is_valid_url(url)
    THEN FALSE
    ELSE LET url_lower == Lower(url)
         IN  \E i \in 1..Len(PLAYLIST_INDICATORS) : Contains(url_lower, PLAYLIST_INDICATORS[i])

\* variant of _is_video_in_playlist_url that tests the URL as given, not url.lower()
_is_video_in_playlist_url_case_sensitive(url) ==
    IF ~_is_valid_url(url)
    THEN FALSE
    ELSE LET has_video_id == Contains(url, M_watch_v) \/ Contains(url, M_youtu_be_slash)
             has_playlist_id ==
                 \E i \in 1..Len(PLAYLIST_INDICATORS) : Contains(url, PLAYLIST_INDICATORS[i])
         IN  has_video_id /\ has_playlist_id

_is_video_in_playlist_url(url) ==
    IF ~_is_valid_url(url)
    THEN FALSE
    ELSE LET url_lower == Lower(url)
             has_video_id == Contains(url_lower, M_watch_v) \/ Contains(url_lower, M_youtu_be_slash)
             has_playlist_id ==
                 \E i \in 1..Len(PLAYLIST_INDICATORS) : Contains(url_lower, PLAYLIST_INDICATORS[i])
         IN  has_video_id /\ has_playlist_id

\* s.find(c) counted from 1; 0 when c does not occur
Find(s, c) ==
    IF \E i \in 1..Len(s) : s[i] = c
    THEN CHOOSE i \in 1..Len(s) : s[i] = c /\ \A j \in 1..(i - 1) : s[j] # c
    ELSE 0

\* s[i:] counted from 1
From(s, i) ==
    SubSeq(s, i, Len(s))

\* s.split(c)
RECURSIVE Split(_, _)
Split(s, c) ==
    IF Find(s, c) = 0
    THEN <<s>>
    ELSE <<SubSeq(s, 1, Find(s, c) - 1)>> \o Split(From(s, Find(s, c) + 1), c)

Letters ==
    {UpperChars[i] : i \in 1..Len(UpperChars)} \cup {LowerChars[i] : i \in 1..Len(LowerChars)}

Digits ==
    {"0","1","2","3","4","5","6","7","8","9"}

\* the percent escapes urllib.parse.unquote decodes, for the characters URLs here carry
PercentCodes ==
    [x \in {<<"2","6">>, <<"3","D">>, <<"3","d">>, <<"3","F">>, <<"3","f">>,
            <<"2","F">>, <<"2","f">>, <<"2","3">>, <<"2","5">>, <<"2","0">>} |->
        CASE x = <<"2","6">> -> "&"
          [] x \in {<<"3","D">>, <<"3","d">>} -> "="
          [] x \in {<<"3","F">>, <<"3","f">>} -> "?"
          [] x \in {<<"2","F">>, <<"2","f">>} -> "/"
          [] x = <<"2","3">> -> "#"
          [] x = <<"2","5">> -> "%"
          [] x = <<"2","0">> -> " "]

\* urllib.parse.unquote(s.replace('+', ' '))
RECURSIVE Unquote(_)
Unquote(s) ==
    IF Len(s) = 0
    THEN <<>>
    ELSE IF s[1] = "%" /\ Len(s) >= 3 /\ <<s[2], s[3]>> \in DOMAIN PercentCodes
    THEN <<PercentCodes[<<s[2], s[3]>>]>> \o Unquote(From(s, 4))
    ELSE IF s[1] = "+"
    THEN <<" ">> \o Unquote(From(s, 2))
    ELSE <<s[1]>> \o Unquote(From(s, 2))

\* urlsplit, last step: the query is what follows the first '?'
SplitQuery(scheme, netloc, rest) ==
    [scheme |-> scheme,
     netloc |-> netloc,
     path |-> IF Find(rest, "?") = 0 THEN rest ELSE SubSeq(rest, 1, Find(rest, "?") - 1),
     query |-> IF Find(rest, "?") = 0 THEN <<>> ELSE From(rest, Find(rest, "?") + 1)]

\* urlsplit: the fragment, what follows the first '#', is cut off
SplitFragment(scheme, netloc, rest) ==
    SplitQuery(scheme, netloc,
               IF Find(rest, "#") = 0 THEN rest ELSE SubSeq(rest, 1, Find(rest, "#") - 1))

\* _splitnetloc: where the netloc of `after` ends, at the first of '/', '?', '#'
NetlocEnd(after) ==
    LET delims == {i \in 1..Len(after) : after[i] \in {"/", "?", "#"}}
    IN  IF delims = {}
        THEN Len(after) + 1
        ELSE CHOOSE i \in delims : \A j \in delims : i <= j

\* urlsplit: a netloc is present when the rest starts with '//'
SplitNetloc(scheme, rest) ==
    IF Len(rest) >= 2 /\ rest[1] = "/" /\ rest[2] = "/"
    THEN SplitFragment(scheme,
                       SubSeq(From(rest, 3), 1, NetlocEnd(From(rest, 3)) - 1),
                       From(From(rest, 3), NetlocEnd(From(rest, 3))))
    ELSE SplitFragment(scheme, <<>>, rest)

\* urlsplit: the position of the ':' ending a scheme, 0 when the URL has no scheme
SchemeEnd(url) ==
    LET colon == Find(url, ":")
    IN  IF /\ colon > 1
           /\ url[1] \in Letters
           /\ \A k \in 1..(colon - 1) : url[k] \in Letters \cup Digits \cup {"+", "-", "."}
        THEN colon
        ELSE 0

\* urllib.parse.urlparse(url): scheme, netloc, path and query of the URL
urlparse(url) ==
    IF SchemeEnd(url) > 0
    THEN SplitNetloc(Lower(SubSeq(url, 1, SchemeEnd(url) - 1)), From(url, SchemeEnd(url) + 1))
    ELSE SplitNetloc(<<>>, url)

\* urllib.parse.parse_qs(query).get(name, [None])[0]; <<>> stands for None
FirstParam(query, name) ==
    LET fields == Split(query, "&")
        keeps(f) == /\ Find(f, "=") # 0
                    /\ Len(From(f, Find(f, "=") + 1)) > 0
                    /\ Unquote(SubSeq(f, 1, Find(f, "=") - 1)) = name
        hits == {i \in 1..Len(fields) : keeps(fields[i])}
    IN  IF hits = {}
        THEN <<>>
        ELSE LET i == CHOOSE i \in hits : \A j \in hits : i <= j
             IN  Unquote(From(fields[i], Find(fields[i], "=") + 1))

S_https_www_youtube_com_watch_v ==
    <<"h","t","t","p","s",":","/","/","w","w","w",".","y","o","u","t","u","b","e",".","c","o","m","/","w","a","t","c","h","?","v","=">>

S_https_youtu_be ==
    <<"h","t","t","p","s",":","/","/","y","o","u","t","u",".","b","e","/">>

_extract_video_url_from_playlist(url) ==
    LET parsed == urlparse(url)
        video_id == FirstParam(parsed.query, <<"v">>)
    IN  IF Len(video_id) = 0
        THEN url
        ELSE IF Contains(parsed.netloc, D_youtube_com)
        THEN S_https_www_youtube_com_watch_v \o video_id
        ELSE IF Contains(parsed.netloc, D_youtu_be)
        THEN S_https_youtu_be \o video_id
        ELSE url

----------------------------------------------------------------------------
(* download_video: the fetch ladder *)

\* what one rung hands back to _try_download_with_fallbacks
RungTrue ==
    [ret |-> "True", exc |-> Ok]

RungFalse ==
    [ret |-> "False", exc |-> Ok]

RungRaise(e) ==
    [ret |-> "raise", exc |-> e]

\* variant of _try_normal_download whose except clause returns False for every
\* DownloadError instead of re-raising the ones that are not 403 errors
_try_normal_download_swallowing(o) ==
    IF o.type = "ok"
    THEN RungTrue
    ELSE IF o.type = "DownloadError" THEN RungFalse ELSE RungRaise(o)

\* Strategy 1; o is how the engine's download ended
_try_normal_download(o) ==
    IF o.type = "ok"
    THEN RungTrue
    ELSE IF o.type = "DownloadError"
    THEN IF ~_is_http_403_error(o) THEN RungRaise(o) ELSE RungFalse
    ELSE RungRaise(o)

_try_audio_format_fallback(o) ==
    IF o.type = "ok"
    THEN RungTrue
    ELSE IF o.type = "DownloadError" THEN RungFalse ELSE RungRaise(o)

_try_mobile_client_fallback(o) ==
    IF o.type = "ok"
    THEN RungTrue
    ELSE IF o.type = "DownloadError" THEN RungFalse ELSE RungRaise(o)

\* variant of the inline strategies that falls through after a download that succeeded
InlineStrategy_falling_through(o) ==
    IF o.type = "ok"
    THEN RungFalse
    ELSE IF o.type = "DownloadError" THEN RungFalse ELSE RungRaise(o)

\* variant of the inline strategies with a bare `except: pass`
InlineStrategy_bare_except(o) ==
    IF o.type = "ok" THEN RungTrue ELSE RungFalse

\* the inline strategies: try: ...download([url]); return True / except DownloadError: pass
InlineStrategy(o) ==
    IF o.type = "ok"
    THEN RungTrue
    ELSE IF o.type = "DownloadError" THEN RungFalse ELSE RungRaise(o)

\* variant of the strategy order without the `if audio_only` tests
NextRung_ignoring_mode(r, audio_only) ==
    CASE r = "primary" -> "audio_format"
      [] r = "audio_format" -> "low_video_extract"
      [] r = "low_video_extract" -> "android"
      [] r = "android" -> "ios"
      [] r = "ios" -> "web"
      [] r = "web" -> "tv_embedded"
      [] r = "tv_embedded" -> "conservative"
      [] r = "conservative" -> "bypass"
      [] r = "bypass" -> "last_resort"
      [] r = "last_resort" -> "exhausted"

\* the order in which _try_download_with_fallbacks reaches its strategies
NextRung(r, audio_only) ==
    CASE r = "primary" -> IF audio_only THEN "audio_format" ELSE "conservative"
      [] r = "audio_format" -> "low_video_extract"
      [] r = "low_video_extract" -> "android"
      [] r = "android" -> "ios"
      [] r = "ios" -> "web"
      [] r = "web" -> "tv_embedded"
      [] r = "tv_embedded" -> "conservative"
      [] r = "conservative" -> IF audio_only THEN "bypass" ELSE "last_resort"
      [] r = "bypass" -> "last_resort"
      [] r = "last_resort" -> "exhausted"

\* variant of _raise_fallback_error raising the video message for every request
_raise_fallback_error_video_only(audio_only) ==
    Exc("DownloadError", VIDEO_DOWNLOAD_FAILED)

\* the exception raised when every strategy has failed
_raise_fallback_error(audio_only) ==
    IF audio_only
    THEN Exc("DownloadError", AUDIO_DOWNLOAD_FAILED)
    ELSE Exc("DownloadError", VIDEO_DOWNLOAD_FAILED)

\* variant of the except clauses of download_video that tests for a timeout before it
\* tests for a private or unavailable video
HandleDownloadVideo_timeout_first(e, audio_only) ==
    IF e.type = "socket.timeout"
    THEN Raised("NetworkTimeoutError", "NETWORK_TIMEOUT", <<>>)
    ELSE IF e.type = "URLError"
    THEN IF Contains(Lower(e.msg), T_timed_out)
         THEN Raised("NetworkTimeoutError", "NETWORK_ERROR", e.msg)
         ELSE Raised("YouTubeDownloaderError", "NETWORK_ERROR", e.msg)
    ELSE IF e.type = "DownloadError"
    THEN IF _is_timeout_error(e)
         THEN Raised("NetworkTimeoutError", "NETWORK_ERROR", e.msg)
         ELSE IF _is_private_video_error(e)
         THEN Raised("VideoUnavailableError", "VIDEO_PRIVATE", e.msg)
         ELSE IF _is_http_403_error(e)
         THEN Raised("YouTubeDownloaderError", "HTTP_403_ERROR", e.msg)
         ELSE IF _is_disk_space_error(e)
         THEN Raised("YouTubeDownloaderError", "DISK_SPACE_ERROR", <<>>)
         ELSE IF _is_ffmpeg_error(e) /\ audio_only
         THEN Raised("YouTubeDownloaderError", "FFMPEG_MISSING", e.msg)
         ELSE Raised("YouTubeDownloaderError", "DOWNLOAD_FAILED", e.msg)
    ELSE IF e.type = "KeyboardInterrupt"
    THEN Raised("YouTubeDownloaderError", "DOWNLOAD_CANCELLED", <<>>)
    ELSE Raised("YouTubeDownloaderError", "UNEXPECTED_ERROR", e.msg)

\* the except clauses of download_video around _try_download_with_fallbacks
HandleDownloadVideo(e, audio_only) ==
    IF e.type = "socket.timeout"
    THEN Raised("NetworkTimeoutError", "NETWORK_TIMEOUT", <<>>)
    ELSE IF e.type = "URLError"
    THEN IF Contains(Lower(e.msg), T_timed_out)
         THEN Raised("NetworkTimeoutError", "NETWORK_ERROR", e.msg)
         ELSE Raised("YouTubeDownloaderError", "NETWORK_ERROR", e.msg)
    ELSE IF e.type = "DownloadError"
    THEN IF _is_private_video_error(e)
         THEN Raised("VideoUnavailableError", "VIDEO_PRIVATE", e.msg)
         ELSE IF _is_timeout_error(e)
         THEN Raised("NetworkTimeoutError", "NETWORK_ERROR", e.msg)
         ELSE IF _is_http_403_error(e)
         THEN Raised("YouTubeDownloaderError", "HTTP_403_ERROR", e.msg)
         ELSE IF _is_disk_space_error(e)
         THEN Raised("YouTubeDownloaderError", "DISK_SPACE_ERROR", <<>>)
         ELSE IF _is_ffmpeg_error(e) /\ audio_only
         THEN Raised("YouTubeDownloaderError", "FFMPEG_MISSING", e.msg)
         ELSE Raised("YouTubeDownloaderError", "DOWNLOAD_FAILED", e.msg)
    ELSE IF e.type = "KeyboardInterrupt"
    THEN Raised("YouTubeDownloaderError", "DOWNLOAD_CANCELLED", <<>>)
    ELSE Raised("YouTubeDownloaderError", "UNEXPECTED_ERROR", e.msg)

\* observation: the class of an engine outcome, by the tokens of its message
AccessDenial(o) ==
    /\ o.type = "DownloadError"
    /\ Contains(Lower(o.msg), T_403) \/ Contains(Lower(o.msg), T_forbidden)

OutcomeClass(o) ==
    IF o.type = "ok" THEN "ok"
    ELSE IF AccessDenial(o) THEN "denied"
    ELSE IF o.type = "DownloadError" THEN "failed"
    ELSE "raised"

Call(op, url, audio_only) ==
    [op |-> op, url |-> url, audio_only |-> audio_only, video_range |-> <<>>,
     has_callback |-> FALSE, supplied |-> FALSE]

DEFAULT_TIMEOUT ==
    30

\* self.timeout of the downloader instance
timeout ==
    DEFAULT_TIMEOUT

\* the entries of an options dict the engine is given that the properties speak of; an
\* absent 'socket_timeout' is 0, an absent 'outtmpl' is "", an absent 'yes_playlist' FALSE,
\* an absent 'playlist_start' or 'playlist_end' is 0 (the engine's indices start at 1).
\* The entries the strategies of download_video override: 'format', 'postprocessors'
\* (its preferredquality), 'keepvideo', 'extractor_args' (its player_client list),
\* 'http_headers' (its User-Agent), 'sleep_interval' and 'retries'; absent ones are "" or 0
NoOpts ==
    [yes_playlist |-> FALSE, outtmpl |-> "", socket_timeout |-> 0,
     playlist_start |-> 0, playlist_end |-> 0,
     format |-> "", postprocessors |-> "", keepvideo |-> "", player_client |-> "",
     user_agent |-> "", sleep_interval |-> 0, retries |-> 0]

\* lines 632-683: ydl_opts of download_video (quality 'best')
VideoOpts(audio_only) ==
    IF audio_only
    THEN [NoOpts EXCEPT !.outtmpl = "%(title)s [audio].%(ext)s",
                        !.socket_timeout = timeout,
                        !.format = "bestaudio/best",
                        !.postprocessors = "mp3 192",
                        !.keepvideo = "False",
                        !.user_agent = "DESKTOP_CHROME",
                        !.sleep_interval = 2,
                        !.retries = 3]
    ELSE [NoOpts EXCEPT !.outtmpl = "%(title)s.%(ext)s",
                        !.socket_timeout = timeout,
                        !.format = "best",
                        !.user_agent = "DESKTOP_CHROME",
                        !.sleep_interval = 2,
                        !.retries = 3]

\* lines 575-587: minimal_opts of the last strategy, built anew with the outtmpl of
\* ydl_opts
MinimalOpts(ydl_opts, audio_only) ==
    [NoOpts EXCEPT !.socket_timeout = timeout,
                   !.outtmpl = ydl_opts.outtmpl,
                   !.format = IF audio_only THEN "worstaudio/worst[height<=144]" ELSE "worst",
                   !.sleep_interval = 30,
                   !.retries = 1,
                   !.player_client = "android",
                   !.postprocessors = IF audio_only THEN "mp3 64" ELSE ""]

\* a variant whose minimal last-resort options are built without socket_timeout
RungOpts_minimal_without_timeout(name, ydl_opts) ==
    IF name = "last_resort"
    THEN [MinimalOpts(ydl_opts, call.audio_only) EXCEPT !.socket_timeout = 0]
    ELSE ydl_opts

\* the options of the strategy `name` (lines 403-599): ydl_opts.copy() with the entries
\* the strategy replaces, or minimal_opts
RungOpts(name, ydl_opts) ==
    CASE name = "primary" -> ydl_opts
      [] name = "audio_format" ->
            [ydl_opts EXCEPT !.format = "bestaudio[ext=m4a]/bestaudio[ext=webm]/bestaudio",
                             !.postprocessors = "",
                             !.keepvideo = "True"]
      [] name = "low_video_extract" ->
            [ydl_opts EXCEPT !.format = "worst[height<=480]/worst",
                             !.postprocessors = "mp3 128",
                             !.sleep_interval = 5]
      [] name = "android" ->
            [ydl_opts EXCEPT !.format = "bestaudio/best",
                             !.player_client = "android",
                             !.sleep_interval = 8]
      [] name = "ios" ->
            [ydl_opts EXCEPT !.format = "bestaudio[ext=m4a]/bestaudio",
                             !.player_client = "ios",
                             !.sleep_interval = 12,
                             !.user_agent = "com.google.ios.youtube"]
      [] name = "web" ->
            [ydl_opts EXCEPT !.format = "bestaudio[filesize<50M]/bestaudio",
                             !.player_client = "web",
                             !.sleep_interval = 15,
                             !.user_agent = "Chrome/120.0.0.0"]
      [] name = "tv_embedded" ->
            [ydl_opts EXCEPT !.format = "bestaudio/worst[height<=360]",
                             !.player_client = "tv_embedded",
                             !.sleep_interval = 20,
                             !.retries = 1]
      [] name = "conservative" ->
            [ydl_opts EXCEPT !.sleep_interval = 10,
                             !.retries = 1,
                             !.user_agent = "Firefox/91.0"]
      [] name = "bypass" ->
            [ydl_opts EXCEPT !.format = "worstaudio/worst[height<=240]",
                             !.player_client = "android,web",
                             !.sleep_interval = 25,
                             !.retries = 1,
                             !.postprocessors = "mp3 64"]
      [] name = "last_resort" -> MinimalOpts(ydl_opts, call.audio_only)

\* a variant in which a strategy writes its entries into ydl_opts itself
BaseAfter_updated_in_place(name, ydl_opts) ==
    RungOpts(name, ydl_opts)

\* what a strategy leaves of the ydl_opts it was given: it works on ydl_opts.copy() (or
\* on minimal_opts) and replaces entries of the copy only
BaseAfter(name, ydl_opts) ==
    ydl_opts

NoBatch ==
    [title |-> "", video_count |-> 0, start_idx |-> 0, end_idx |-> 0,
     downloaded |-> 0, failed |-> 0, skipped |-> 0, errors |-> <<>>]

\* the engine has not been invoked: no info dict reported, no download made, no progress
\* event of a download that did not raise, no metadata resolution failed, no 'formats'
\* list of an info dict given, no options handed to a playlist download, no playlist
\* download failed, no callback raised, no '_type' seen by get_content_info, nothing
\* returned by the metadata resolution of download_playlist, no ydl_opts built by
\* download_video
NoObs ==
    [reported |-> Exc("none", <<>>), downloads |-> 0, events |-> <<>>, info_failed |-> FALSE,
     formats |-> <<>>, opts |-> NoOpts, failure |-> Exc("none", <<>>), hook_fault |-> FALSE,
     detected |-> "", resolved |-> "", ydl_opts |-> NoOpts]

MsgHookFault ==
    <<"p","r","o","g","r","e","s","s"," ","c","a","l","l","b","a","c","k"," ","f","a","i","l","e","d">>

\* the caller's progress callback raises while it is handed a progress event; the
\* exception leaves the hook, which has no handler around the call
HookFault ==
    Exc("Exception", MsgHookFault)

\* how the download of the strategy `name` can end: as the engine ends it, or, when
\* ydl_opts carries the caller's progress callback (lines 684-690; minimal_opts has no
\* hooks), with the exception the callback raised during a transfer that was going well
RungOutcomes(name) ==
    DownloadOutcomes
        \cup (IF call.has_callback /\ name # "last_resort" THEN {HookFault} ELSE {})

\* the info dict of the most recent extract_info, invoked `calls` times by the resolver,
\* the last time ending as o; none when it raised or returned None
Reported(calls, o) ==
    IF calls = 0 THEN obs.reported
    ELSE IF o.type = "info" THEN o
    ELSE Exc("none", <<>>)

\* how output_dir.mkdir(parents=True, exist_ok=True) can end
MkdirOutcomes ==
    {"ok", "PermissionError", "OSError"}

\* download_video up to the call of _try_download_with_fallbacks
CallDownloadVideo ==
    /\ pc = "idle"
    /\ gui = GuiInit /\ jobs = NoJobs
    /\ \E url \in URLs, audio_only \in BOOLEAN, fs \in MkdirOutcomes, cb \in BOOLEAN :
        /\ call' = [Call("download_video", url, audio_only) EXCEPT !.has_callback = cb]
        /\ IF _validate_url(url) # NoResult
           THEN /\ pc' = "done"
                /\ result' = _validate_url(url)
                /\ rung' = "none"
           ELSE IF fs = "PermissionError"
           THEN /\ pc' = "done"
                /\ result' = Raised("YouTubeDownloaderError", "PERMISSION_DENIED", <<>>)
                /\ rung' = "none"
           ELSE IF fs = "OSError"
           THEN /\ pc' = "done"
                /\ result' = Raised("YouTubeDownloaderError", "OUTPUT_DIR_ERROR", <<>>)
                /\ rung' = "none"
           ELSE /\ pc' = "ladder"
                /\ result' = NoResult
                /\ rung' = "primary"
    /\ attempts' = <<>>
    /\ lastOutcome' = "none"
    /\ primaryExc' = Ok
    /\ engineCalls' = 0
    /\ obs' = IF pc' = "ladder"
              THEN [NoObs EXCEPT !.ydl_opts = VideoOpts(call'.audio_only)]
              ELSE NoObs
    /\ UNCHANGED <<video_info, batch>>
    /\ UNCHANGED <<gui, jobs>>

\* one strategy of the ladder: the engine's download is invoked and ends as o,
\* the strategy hands back r
RungStep(name, o, r) ==
    /\ attempts' = Append(attempts, name)
    /\ engineCalls' = engineCalls + 1
    /\ obs' = [obs EXCEPT !.downloads = @ + 1,
                          !.opts = RungOpts(name, obs.ydl_opts),
                          !.ydl_opts = BaseAfter(name, obs.ydl_opts),
                          !.failure = IF o.type = "ok" THEN Exc("none", <<>>) ELSE o,
                          !.hook_fault = (o = HookFault)]
    /\ lastOutcome' = OutcomeClass(o)
    /\ primaryExc' = IF name = "primary" THEN o ELSE primaryExc
    /\ IF r.ret = "True"
       THEN /\ pc' = "done"
            /\ rung' = "none"
            /\ result' = Returned([kind |-> "bool", ok |-> TRUE])
       ELSE IF r.ret = "raise"
       THEN /\ pc' = "done"
            /\ rung' = "none"
            /\ result' = HandleDownloadVideo(r.exc, call.audio_only)
       ELSE IF NextRung(name, call.audio_only) = "exhausted"
       THEN /\ pc' = "done"
            /\ rung' = "none"
            /\ result' = HandleDownloadVideo(_raise_fallback_error(call.audio_only),
                                             call.audio_only)
       ELSE /\ pc' = "ladder"
            /\ rung' = NextRung(name, call.audio_only)
            /\ result' = NoResult
    /\ UNCHANGED <<call, video_info, batch>>

PrimaryAttempt ==
    /\ pc = "ladder"
    /\ rung = "primary"
    /\ \E o \in RungOutcomes("primary") : RungStep("primary", o, _try_normal_download(o))
    /\ UNCHANGED <<gui, jobs>>

AudioFormatFallback ==
    /\ pc = "ladder"
    /\ rung = "audio_format"
    /\ \E o \in RungOutcomes("audio_format") : RungStep("audio_format", o, _try_audio_format_fallback(o))
    /\ UNCHANGED <<gui, jobs>>

LowVideoExtractAudio ==
    /\ pc = "ladder"
    /\ rung = "low_video_extract"
    /\ \E o \in RungOutcomes("low_video_extract") : RungStep("low_video_extract", o, InlineStrategy(o))
    /\ UNCHANGED <<gui, jobs>>

MobileClientFallback ==
    /\ pc = "ladder"
    /\ rung = "android"
    /\ \E o \in RungOutcomes("android") : RungStep("android", o, _try_mobile_client_fallback(o))
    /\ UNCHANGED <<gui, jobs>>

IosClient ==
    /\ pc = "ladder"
    /\ rung = "ios"
    /\ \E o \in RungOutcomes("ios") : RungStep("ios", o, InlineStrategy(o))
    /\ UNCHANGED <<gui, jobs>>

WebClient ==
    /\ pc = "ladder"
    /\ rung = "web"
    /\ \E o \in RungOutcomes("web") : RungStep("web", o, InlineStrategy(o))
    /\ UNCHANGED <<gui, jobs>>

TvEmbeddedClient ==
    /\ pc = "ladder"
    /\ rung = "tv_embedded"
    /\ \E o \in RungOutcomes("tv_embedded") : RungStep("tv_embedded", o, InlineStrategy(o))
    /\ UNCHANGED <<gui, jobs>>

Conservative ==
    /\ pc = "ladder"
    /\ rung = "conservative"
    /\ \E o \in RungOutcomes("conservative") : RungStep("conservative", o, InlineStrategy(o))
    /\ UNCHANGED <<gui, jobs>>

Bypass ==
    /\ pc = "ladder"
    /\ rung = "bypass"
    /\ \E o \in RungOutcomes("bypass") : RungStep("bypass", o, InlineStrategy(o))
    /\ UNCHANGED <<gui, jobs>>

LastResort ==
    /\ pc = "ladder"
    /\ rung = "last_resort"
    /\ \E o \in RungOutcomes("last_resort") : RungStep("last_resort", o, InlineStrategy(o))
    /\ UNCHANGED <<gui, jobs>>

\* the caller takes the result; the worker is free for the next call
Return ==
    /\ pc = "done"
    /\ pc' = "idle"
    /\ call' = Call("none", <<>>, FALSE)
    /\ rung' = "none"
    /\ attempts' = <<>>
    /\ lastOutcome' = "none"
    /\ primaryExc' = Ok
    /\ engineCalls' = 0
    /\ video_info' = NoValue
    /\ batch' = NoBatch
    /\ obs' = NoObs
    /\ result' = NoResult
    /\ UNCHANGED <<gui, jobs>>

----------------------------------------------------------------------------
(* Metadata resolvers *)

PLAYLIST_SIZE_WARNING_THRESHOLD ==
    200

PLAYLIST_PREVIEW_COUNT ==
    10

DEFAULT_SLEEP_INTERVAL ==
    15

MAX_SLEEP_INTERVAL ==
    25

Min(a, b) ==
    IF a <= b THEN a ELSE b

Max(a, b) ==
    IF a >= b THEN a ELSE b

\* get_video_info(url), o being how the engine's extract_info ends: the result and
\* the number of engine invocations made
get_video_info(url, o) ==
    IF _validate_url(url) # NoResult
    THEN [result |-> _validate_url(url), calls |-> 0]
    ELSE [calls |-> 1,
          result |->
            IF o.type = "info"
            THEN Returned([kind |-> "video", has_is_playlist |-> FALSE])
            ELSE IF o.type = "None"
            THEN Wrapped("YouTubeDownloaderError", "UNEXPECTED_VIDEO_INFO",
                         Raised("VideoUnavailableError", "COULD_NOT_EXTRACT", <<>>))
            ELSE IF o.type = "socket.timeout"
            THEN Raised("NetworkTimeoutError", "NETWORK_TIMEOUT", <<>>)
            ELSE IF o.type = "URLError"
            THEN IF Contains(Lower(o.msg), T_timed_out)
                 THEN Raised("NetworkTimeoutError", "NETWORK_ERROR", o.msg)
                 ELSE Raised("YouTubeDownloaderError", "NETWORK_ERROR", o.msg)
            ELSE IF o.type = "DownloadError"
            THEN LET error_msg == Lower(o.msg)
                 IN  IF Contains(error_msg, T_private_video) \/ Contains(error_msg, T_unavailable)
                     THEN Raised("VideoUnavailableError", "VIDEO_IS_UNAVAILABLE", o.msg)
                     ELSE IF Contains(error_msg, T_timeout)
                     THEN Raised("NetworkTimeoutError", "DOWNLOAD_TIMEOUT", o.msg)
                     ELSE Raised("YouTubeDownloaderError", "DOWNLOAD_ERROR", o.msg)
            ELSE IF o.type = "KeyboardInterrupt"
            THEN Propagated(o)
            ELSE Wrapped("YouTubeDownloaderError", "UNEXPECTED_VIDEO_INFO", Propagated(o))]

\* variant of estimated_time_minutes that takes the sum of the two sleep bounds for
\* their midpoint
estimated_time_minutes_sum_of_bounds(video_count) ==
    LET avg_delay == DEFAULT_SLEEP_INTERVAL + MAX_SLEEP_INTERVAL
    IN  (video_count * avg_delay) \div 60

\* lines 180-188: int((video_count * avg_delay) / 60)
estimated_time_minutes(video_count) ==
    LET avg_delay == (DEFAULT_SLEEP_INTERVAL + MAX_SLEEP_INTERVAL) \div 2
    IN  (video_count * avg_delay) \div 60

\* get_playlist_info(url), o being how the engine's extract_info ends
get_playlist_info(url, o) ==
    IF _validate_url(url) # NoResult
    THEN [result |-> _validate_url(url), calls |-> 0]
    ELSE [calls |-> 1,
          result |->
            IF o.type = "info"
            THEN IF o.tag # "playlist"
                 THEN IF _is_playlist_url(url)
                      THEN Wrapped("PlaylistError", "UNEXPECTED_PLAYLIST_INFO",
                                   Raised("PlaylistError", "PLAYLIST_NOT_FOUND", <<>>))
                      ELSE Wrapped("PlaylistError", "UNEXPECTED_PLAYLIST_INFO",
                                   Raised("InvalidURLError", "PLAYLIST_SINGLE_VIDEO", <<>>))
                 ELSE LET video_count == o.count
                      IN  IF video_count = 0
                          THEN Wrapped("PlaylistError", "UNEXPECTED_PLAYLIST_INFO",
                                       Raised("PlaylistError", "PLAYLIST_EMPTY", <<>>))
                          ELSE IF video_count > PLAYLIST_SIZE_WARNING_THRESHOLD
                          THEN Wrapped("PlaylistError", "UNEXPECTED_PLAYLIST_INFO",
                                       RaisedTooLarge(video_count,
                                                      PLAYLIST_SIZE_WARNING_THRESHOLD))
                          ELSE Returned([kind |-> "playlist",
                                         video_count |-> video_count,
                                         estimated_time_minutes |->
                                             estimated_time_minutes(video_count),
                                         entries |-> Min(video_count, PLAYLIST_PREVIEW_COUNT)])
            ELSE IF o.type = "None"
            THEN Wrapped("PlaylistError", "UNEXPECTED_PLAYLIST_INFO",
                         Raised("PlaylistPrivateError", "COULD_NOT_EXTRACT", <<>>))
            ELSE IF o.type = "socket.timeout"
            THEN Raised("NetworkTimeoutError", "NETWORK_TIMEOUT", <<>>)
            ELSE IF o.type = "URLError"
            THEN IF Contains(Lower(o.msg), T_timed_out)
                 THEN Raised("NetworkTimeoutError", "NETWORK_TIMEOUT_URL", o.msg)
                 ELSE Raised("YouTubeDownloaderError", "NETWORK_ERROR", o.msg)
            ELSE IF o.type = "DownloadError"
            THEN LET error_msg == Lower(o.msg)
                 IN  IF Contains(error_msg, T_private) \/ Contains(error_msg, T_unavailable)
                     THEN Raised("PlaylistPrivateError", "PLAYLIST_IS_UNAVAILABLE", o.msg)
                     ELSE IF Contains(error_msg, T_timeout)
                     THEN Raised("NetworkTimeoutError", "PLAYLIST_EXTRACTION_TIMEOUT", o.msg)
                     ELSE Raised("PlaylistError", "PLAYLIST_EXTRACTION_FAILED", o.msg)
            ELSE IF o.type = "KeyboardInterrupt"
            THEN Propagated(o)
            ELSE Wrapped("PlaylistError", "UNEXPECTED_PLAYLIST_INFO", Propagated(o))]

\* variant of CaughtByExceptException that lets every exception but PlaylistError pass
CaughtByExceptException_playlist_errors_only(r) ==
    r.status = "raised" /\ r.type = "PlaylistError"

\* `except Exception` catches r: every exception but KeyboardInterrupt
CaughtByExceptException(r) ==
    r.status = "raised" /\ r.type # "KeyboardInterrupt"

\* the entry point ends with r
Finish(r) ==
    /\ pc' = "done"
    /\ result' = r

\* the ydl_opts of the resolvers' extract_info calls (lines 93-98, 136-143, 296-302),
\* as far as the options recorded by the model go
InfoOpts ==
    [NoOpts EXCEPT !.socket_timeout = timeout]

\* the options the engine was last invoked with, after a step in which a resolver
\* invoked the engine `calls` times
InvokedWith(calls) ==
    IF calls = 0 THEN obs.opts ELSE InfoOpts

CallGetVideoInfo ==
    /\ pc = "idle"
    /\ gui = GuiInit /\ jobs = NoJobs
    /\ \E url \in URLs, o \in ExtractOutcomes :
        /\ call' = Call("get_video_info", url, FALSE)
        /\ Finish(get_video_info(url, o).result)
        /\ engineCalls' = get_video_info(url, o).calls
        /\ obs' = [NoObs EXCEPT !.reported = Reported(get_video_info(url, o).calls, o),
                                !.opts = InvokedWith(get_video_info(url, o).calls)]
    /\ UNCHANGED <<ladderVars, video_info, batch>>
    /\ UNCHANGED <<gui, jobs>>

CallGetPlaylistInfo ==
    /\ pc = "idle"
    /\ gui = GuiInit /\ jobs = NoJobs
    /\ \E url \in URLs, o \in ExtractOutcomes :
        /\ call' = Call("get_playlist_info", url, FALSE)
        /\ Finish(get_playlist_info(url, o).result)
        /\ engineCalls' = get_playlist_info(url, o).calls
        /\ obs' = [NoObs EXCEPT !.reported = Reported(get_playlist_info(url, o).calls, o),
                                !.opts = InvokedWith(get_playlist_info(url, o).calls)]
    /\ UNCHANGED <<ladderVars, video_info, batch>>
    /\ UNCHANGED <<gui, jobs>>

\* the URL helpers callers use directly (cli.py:130, gui.py:606): the kind of content
\* a URL designates, by _is_video_in_playlist_url and _is_playlist_url
CallClassify ==
    /\ pc = "idle"
    /\ gui = GuiInit /\ jobs = NoJobs
    /\ \E url \in HelperUrls :
        /\ call' = Call("classify", url, FALSE)
        /\ Finish(Returned([kind |-> "classification",
                            valid |-> _is_valid_url(url),
                            video_in_playlist |-> _is_video_in_playlist_url(url),
                            playlist |-> _is_playlist_url(url)]))
    /\ engineCalls' = 0
    /\ obs' = NoObs
    /\ UNCHANGED <<ladderVars, video_info, batch>>
    /\ UNCHANGED <<gui, jobs>>

CallExtractVideoUrl ==
    /\ pc = "idle"
    /\ gui = GuiInit /\ jobs = NoJobs
    /\ \E url \in HelperUrls :
        /\ call' = Call("_extract_video_url_from_playlist", url, FALSE)
        /\ Finish(Returned([kind |-> "url",
                            url |-> _extract_video_url_from_playlist(url)]))
    /\ engineCalls' = 0
    /\ obs' = NoObs
    /\ UNCHANGED <<ladderVars, video_info, batch>>
    /\ UNCHANGED <<gui, jobs>>

----------------------------------------------------------------------------
(* _get_available_formats *)

\* the sequences over S of length at most n
RECURSIVE SeqsUpTo(_, _)
SeqsUpTo(S, n) ==
    IF n = 0
    THEN {<<>>}
    ELSE SeqsUpTo(S, n - 1) \cup {Append(q, x) : q \in {p \in SeqsUpTo(S, n - 1) : Len(p) = n - 1}, x \in S}

\* upper bound on the length of the 'formats' list of an info dict
MaxFormats ==
    4

\* an entry of info['formats']: a dict whose 'height' and 'ext' keys may be missing
\* (or None)
Format(vcodec, has_height, height, has_ext, ext) ==
    [dict |-> TRUE, vcodec |-> vcodec, has_height |-> has_height, height |-> height,
     has_ext |-> has_ext, ext |-> ext]

\* an entry that is None
NoneFormat ==
    [dict |-> FALSE, vcodec |-> "", has_height |-> FALSE, height |-> 0,
     has_ext |-> FALSE, ext |-> <<>>]

E_mp4 ==
    <<"m","p","4">>

E_webm ==
    <<"w","e","b","m">>

E_mhtml ==
    <<"m","h","t","m","l">>

E_m4a ==
    <<"m","4","a">>

F_720_mp4 ==
    Format("avc1", TRUE, 720, TRUE, E_mp4)

F_480_webm ==
    Format("vp9", TRUE, 480, TRUE, E_webm)

\* a format without height
F_None_mp4 ==
    Format("avc1", FALSE, 0, TRUE, E_mp4)

\* a format without extension
F_720_None ==
    Format("avc1", TRUE, 720, FALSE, <<>>)

\* a format whose height is 0
F_0_mp4 ==
    Format("avc1", TRUE, 0, TRUE, E_mp4)

\* an audio-only format
F_audio ==
    Format("none", FALSE, 0, TRUE, E_m4a)

\* a storyboard: images, no video codec, with a height and an extension
F_storyboard ==
    Format("none", TRUE, 45, TRUE, E_mhtml)

FormatPool ==
    {F_720_mp4, F_480_webm, F_None_mp4, F_720_None, F_0_mp4, F_audio, F_storyboard, NoneFormat}

FormatLists ==
    SeqsUpTo(FormatPool, MaxFormats)

DigitChars ==
    <<"0", "1", "2", "3", "4", "5", "6", "7", "8", "9">>

\* str(n) of a natural number
RECURSIVE Str(_)
Str(n) ==
    IF n < 10
    THEN <<DigitChars[n + 1]>>
    ELSE Str(n \div 10) \o <<DigitChars[(n % 10) + 1]>>

S_p_dash ==
    <<"p"," ","-"," ">>

\* f"{quality}p - {ext}"
FormatLabel(quality, ext) ==
    Str(quality) \o S_p_dash \o ext

\* variant of dict_fromkeys that keeps the last occurrence of a key, not the first
RECURSIVE dict_fromkeys_last_wins(_)
dict_fromkeys_last_wins(keys) ==
    IF keys = <<>>
    THEN <<>>
    ELSE IF \E i \in 2..Len(keys) : keys[i] = Head(keys)
    THEN dict_fromkeys_last_wins(Tail(keys))
    ELSE <<Head(keys)>> \o dict_fromkeys_last_wins(Tail(keys))

\* list(dict.fromkeys(keys)): the keys in the order of their first occurrence
RECURSIVE dict_fromkeys(_)
dict_fromkeys(keys) ==
    IF keys = <<>>
    THEN <<>>
    ELSE <<Head(keys)>>
            \o dict_fromkeys(SelectSeq(Tail(keys), LAMBDA k : k # Head(keys)))

\* the loop of _get_available_formats over the entries fs, `formats` being the list so far
RECURSIVE FormatsLoop(_, _)
FormatsLoop(fs, formats) ==
    IF fs = <<>>
    THEN formats
    ELSE IF /\ Head(fs).dict
            /\ Head(fs).vcodec # "none"
            /\ Head(fs).has_height /\ Head(fs).height # 0
            /\ Head(fs).has_ext /\ Head(fs).ext # <<>>
    THEN FormatsLoop(Tail(fs), Append(formats, FormatLabel(Head(fs).height, Head(fs).ext)))
    ELSE FormatsLoop(Tail(fs), formats)

\* _get_available_formats(info), fs being info.get('formats', []) or []
_get_available_formats(fs) ==
    dict_fromkeys(FormatsLoop(fs, <<>>))

CallGetAvailableFormats ==
    /\ pc = "idle"
    /\ gui = GuiInit /\ jobs = NoJobs
    /\ \E fs \in FormatLists :
        /\ call' = Call("_get_available_formats", <<>>, FALSE)
        /\ Finish(Returned([kind |-> "formats", formats |-> _get_available_formats(fs)]))
        /\ obs' = [NoObs EXCEPT !.formats = fs]
    /\ engineCalls' = 0
    /\ UNCHANGED <<ladderVars, video_info, batch>>
    /\ UNCHANGED <<gui, jobs>>

----------------------------------------------------------------------------
(* download_playlist: playlist_info, index range, download_stats *)

\* the minimal info download_playlist continues with when it has no playlist info
Placeholder ==
    [title |-> "Unknown Playlist", video_count |-> 1]

\* variant of DpRange that rejects a range only when its start lies beyond its end
DpRange_empty_range_accepted(info, video_range) ==
    LET total_videos == info.video_count
        ranged == video_range # <<>>
        start_idx == IF ranged THEN Max(0, video_range[1] - 1) ELSE 0
        end_idx == IF ranged THEN Min(total_videos, video_range[2]) ELSE total_videos
    IN  IF ranged /\ start_idx > end_idx
        THEN /\ Finish(Raised("PlaylistError", "INVALID_RANGE", <<>>))
             /\ batch' = [NoBatch EXCEPT !.title = info.title, !.video_count = total_videos]
        ELSE /\ pc' = "dp_download"
             /\ result' = NoResult
             /\ batch' = [title |-> info.title, video_count |-> total_videos,
                          start_idx |-> start_idx, end_idx |-> end_idx,
                          downloaded |-> 0, failed |-> 0, skipped |-> 0, errors |-> <<>>]

\* lines 772-781 and 832-839: the index range and the initial download_stats,
\* or the PlaylistError of an invalid range (playlist_info is then kept in batch)
\* a variant that also rejects the range that selects a single item
DpRange_single_item_rejected(info, video_range) ==
    LET total_videos == info.video_count
        ranged == video_range # <<>>
        start_idx == IF ranged THEN Max(0, video_range[1] - 1) ELSE 0
        end_idx == IF ranged THEN Min(total_videos, video_range[2]) ELSE total_videos
    IN  IF ranged /\ start_idx + 1 >= end_idx
        THEN /\ Finish(Raised("PlaylistError", "INVALID_RANGE", <<>>))
             /\ batch' = [NoBatch EXCEPT !.title = info.title, !.video_count = total_videos]
        ELSE /\ pc' = "dp_download"
             /\ result' = NoResult
             /\ batch' = [title |-> info.title, video_count |-> total_videos,
                          start_idx |-> start_idx, end_idx |-> end_idx,
                          downloaded |-> 0, failed |-> 0, skipped |-> 0, errors |-> <<>>]

DpRange(info, video_range) ==
    LET total_videos == info.video_count
        ranged == video_range # <<>>
        start_idx == IF ranged THEN Max(0, video_range[1] - 1) ELSE 0
        end_idx == IF ranged THEN Min(total_videos, video_range[2]) ELSE total_videos
    IN  IF ranged /\ start_idx >= end_idx
        THEN /\ Finish(Raised("PlaylistError", "INVALID_RANGE", <<>>))
             /\ batch' = [NoBatch EXCEPT !.title = info.title, !.video_count = total_videos]
        ELSE /\ pc' = "dp_download"
             /\ result' = NoResult
             /\ batch' = [title |-> info.title, video_count |-> total_videos,
                          start_idx |-> start_idx, end_idx |-> end_idx,
                          downloaded |-> 0, failed |-> 0, skipped |-> 0, errors |-> <<>>]

\* lines 751-770: download_playlist takes the outcome r of get_content_info
DpResume(r) ==
    IF r.status = "raised" /\ ~CaughtByExceptException(r)
    THEN Finish(r) /\ batch' = NoBatch
    ELSE IF r.status = "returned" /\ r.value.kind = "playlist"
    THEN DpRange([title |-> "playlist title", video_count |-> r.value.video_count],
                 call.video_range)
    ELSE DpRange(Placeholder, call.video_range)

\* extract_info ended as o and the resolution goes on: the step's engine invocations,
\* if it made any, are recorded with their outcome
Observe(o) ==
    obs' = [obs EXCEPT !.reported = Reported(1, o),
                       !.opts = InvokedWith(engineCalls' - engineCalls)]

\* a resolver called by get_content_info or called directly ends with r, the engine's
\* last extract_info having ended as o
Resume(r, o) ==
    IF call.op = "download_playlist"
    THEN DpResume(r) /\ obs' = [obs EXCEPT !.reported = Reported(1, o),
                                           !.opts = InvokedWith(engineCalls' - engineCalls),
                                           !.info_failed = (r.status = "raised"),
                                           !.detected = "",
                                           !.resolved = IF r.status = "returned"
                                                        THEN r.value.kind ELSE ""]
    ELSE Finish(r) /\ batch' = NoBatch /\ Observe(o)

----------------------------------------------------------------------------
(* get_video_and_playlist_info and get_content_info *)

CallGetVideoAndPlaylistInfo ==
    /\ pc = "idle"
    /\ gui = GuiInit /\ jobs = NoJobs
    /\ \E url \in URLs :
        /\ call' = Call("get_video_and_playlist_info", url, FALSE)
        /\ IF _validate_url(url) # NoResult
           THEN Finish(_validate_url(url))
           ELSE pc' = "gvpi_video" /\ result' = NoResult
    /\ engineCalls' = 0
    /\ obs' = NoObs
    /\ UNCHANGED <<ladderVars, video_info, batch>>
    /\ UNCHANGED <<gui, jobs>>

\* lines 261-264: the video info of the extracted video URL
GvpiVideo ==
    /\ pc = "gvpi_video"
    /\ \E o \in ExtractOutcomes :
        LET video_url == _extract_video_url_from_playlist(call.url)
            r == get_video_info(video_url, o)
        IN  /\ engineCalls' = engineCalls + r.calls
            /\ IF r.result.status = "returned"
               THEN /\ pc' = "gvpi_playlist"
                    /\ video_info' = r.result.value
                    /\ Observe(Reported(r.calls, o))
                    /\ UNCHANGED <<result, batch>>
               ELSE /\ video_info' = NoValue
                    /\ IF CaughtByExceptException(r.result)
                       THEN Resume(Wrapped("YouTubeDownloaderError", "COULD_NOT_EXTRACT_BOTH",
                                           r.result), Reported(r.calls, o))
                       ELSE Resume(r.result, Reported(r.calls, o))
    /\ UNCHANGED <<call, ladderVars>>
    /\ UNCHANGED <<gui, jobs>>

\* lines 266-282: the playlist info, and both combined
GvpiPlaylist ==
    /\ pc = "gvpi_playlist"
    /\ \E o \in ExtractOutcomes :
        LET r == get_playlist_info(call.url, o)
        IN  /\ engineCalls' = engineCalls + r.calls
            /\ IF r.result.status = "returned"
               THEN Resume(Returned([kind |-> "video_in_playlist",
                                     video_info |-> video_info,
                                     playlist_info |-> r.result.value,
                                     playlist_video_count |-> r.result.value.video_count]),
                           Reported(r.calls, o))
               ELSE IF CaughtByExceptException(r.result)
               THEN Resume(Wrapped("YouTubeDownloaderError", "COULD_NOT_EXTRACT_BOTH", r.result),
                           Reported(r.calls, o))
               ELSE Resume(r.result, Reported(r.calls, o))
    /\ video_info' = NoValue
    /\ UNCHANGED <<call, ladderVars>>
    /\ UNCHANGED <<gui, jobs>>

\* lines 289-293 of get_content_info, entered for the URL of `call`
EnterGetContentInfo ==
    IF _is_video_in_playlist_url(call'.url)
    THEN pc' = "gvpi_video"
    ELSE pc' = "gci_detect"

CallGetContentInfo ==
    /\ pc = "idle"
    /\ gui = GuiInit /\ jobs = NoJobs
    /\ \E url \in URLs :
        /\ call' = Call("get_content_info", url, FALSE)
        /\ IF _validate_url(url) # NoResult
           THEN Finish(_validate_url(url))
           ELSE EnterGetContentInfo /\ result' = NoResult
    /\ engineCalls' = 0
    /\ obs' = NoObs
    /\ UNCHANGED <<ladderVars, video_info, batch>>
    /\ UNCHANGED <<gui, jobs>>

\* lines 304-313: the engine reports the content type
GciDetect ==
    /\ pc = "gci_detect"
    /\ \E o \in ExtractOutcomes :
        /\ engineCalls' = engineCalls + 1
        /\ IF o.type = "info"
           THEN /\ pc' = IF o.tag = "playlist" THEN "gci_playlist" ELSE "gci_video"
                /\ obs' = [obs EXCEPT !.reported = Reported(1, o), !.opts = InfoOpts,
                                      !.detected = o.tag]
                /\ UNCHANGED <<result, batch>>
           ELSE IF o.type = "KeyboardInterrupt"
           THEN Resume(Propagated(o), o)
           ELSE /\ pc' = "gci_fallback"
                /\ Observe(o)
                /\ UNCHANGED <<result, batch>>
    /\ UNCHANGED <<call, ladderVars, video_info>>
    /\ UNCHANGED <<gui, jobs>>

\* lines 313-315: the engine said 'playlist'
GciPlaylist ==
    /\ pc = "gci_playlist"
    /\ \E o \in ExtractOutcomes :
        LET r == get_playlist_info(call.url, o)
        IN  /\ engineCalls' = engineCalls + r.calls
            /\ IF CaughtByExceptException(r.result)
               THEN /\ pc' = "gci_fallback"
                    /\ Observe(Reported(r.calls, o))
                    /\ UNCHANGED <<result, batch>>
               ELSE Resume(r.result, Reported(r.calls, o))
    /\ UNCHANGED <<call, ladderVars, video_info>>
    /\ UNCHANGED <<gui, jobs>>

\* lines 316-320: the engine said something else than 'playlist'
GciVideo ==
    /\ pc = "gci_video"
    /\ \E o \in ExtractOutcomes :
        LET r == get_video_info(call.url, o)
        IN  /\ engineCalls' = engineCalls + r.calls
            /\ IF CaughtByExceptException(r.result)
               THEN /\ pc' = "gci_fallback"
                    /\ Observe(Reported(r.calls, o))
                    /\ UNCHANGED <<result, batch>>
               ELSE IF r.result.status = "returned"
               THEN Resume(Returned([kind |-> "video", has_is_playlist |-> TRUE]),
                           Reported(r.calls, o))
               ELSE Resume(r.result, Reported(r.calls, o))
    /\ UNCHANGED <<call, ladderVars, video_info>>
    /\ UNCHANGED <<gui, jobs>>

\* lines 322-327: detection by the URL after a failed extraction
GciFallback ==
    /\ pc = "gci_fallback"
    /\ \E o \in ExtractOutcomes :
        LET r == IF _is_playlist_url(call.url)
                 THEN get_playlist_info(call.url, o)
                 ELSE get_video_info(call.url, o)
        IN  /\ engineCalls' = engineCalls + r.calls
            /\ Resume(r.result, Reported(r.calls, o))
    /\ UNCHANGED <<call, ladderVars, video_info>>
    /\ UNCHANGED <<gui, jobs>>

----------------------------------------------------------------------------
(* download_playlist *)

\* upper bound on the progress events the engine reports during one invocation
MaxEvents ==
    2

EventKinds ==
    {"downloading", "finished", "error"}

EventSeqs ==
    SeqsUpTo(EventKinds, MaxEvents)

VideoRanges ==
    {<<>>, <<1, 1>>, <<1, 2>>, <<2, 1>>, <<1, 300>>, <<3, 3>>, <<0, 2>>}

\* the playlist_info argument: None (FALSE), or a dict with this video_count
SuppliedCounts ==
    {2}

\* the statistics part of playlist_progress_hook, applied to the events in order
RECURSIVE playlist_progress_hook(_, _)
playlist_progress_hook(stats, events) ==
    IF Len(events) = 0
    THEN stats
    ELSE LET d == Head(events)
             next == IF d = "finished"
                     THEN [stats EXCEPT !.downloaded = @ + 1]
                     ELSE IF d = "error"
                     THEN [stats EXCEPT !.failed = @ + 1, !.errors = Append(@, "Unknown error")]
                     ELSE stats
         IN  playlist_progress_hook(next, Tail(events))

\* variant of HandleDownloadPlaylist whose access-denied error drops the engine's message
HandleDownloadPlaylist_without_details(e) ==
    IF e.type = "KeyboardInterrupt"
    THEN Raised("YouTubeDownloaderError", "PLAYLIST_CANCELLED", <<>>)
    ELSE IF e.type = "DownloadError"
    THEN LET error_msg == Lower(e.msg)
         IN  IF Contains(error_msg, T_403) \/ Contains(error_msg, T_forbidden)
             THEN Raised("YouTubeDownloaderError", "HTTP_403_ERROR", <<>>)
             ELSE IF Contains(error_msg, T_not_a_playlist) \/ Contains(error_msg, T_single_video)
             THEN Raised("PlaylistError", "PLAYLIST_SINGLE_VIDEO", <<>>)
             ELSE Raised("PlaylistError", "DOWNLOAD_FAILED", e.msg)
    ELSE Raised("PlaylistError", "UNEXPECTED_ERROR", e.msg)

\* lines 912-924: the except clauses around the engine's download
HandleDownloadPlaylist(e) ==
    IF e.type = "KeyboardInterrupt"
    THEN Raised("YouTubeDownloaderError", "PLAYLIST_CANCELLED", <<>>)
    ELSE IF e.type = "DownloadError"
    THEN LET error_msg == Lower(e.msg)
         IN  IF Contains(error_msg, T_403) \/ Contains(error_msg, T_forbidden)
             THEN Raised("YouTubeDownloaderError", "HTTP_403_ERROR", e.msg)
             ELSE IF Contains(error_msg, T_not_a_playlist) \/ Contains(error_msg, T_single_video)
             THEN Raised("PlaylistError", "PLAYLIST_SINGLE_VIDEO", <<>>)
             ELSE Raised("PlaylistError", "DOWNLOAD_FAILED", e.msg)
    ELSE Raised("PlaylistError", "UNEXPECTED_ERROR", e.msg)

\* a variant whose success says that something was downloaded
BatchResult_success_if_downloaded(stats) ==
    Returned([kind |-> "batch", success |-> (stats.downloaded > 0),
              playlist_title |-> stats.title,
              total_videos |-> stats.end_idx - stats.start_idx,
              downloaded |-> stats.downloaded, failed |-> stats.failed,
              skipped |-> stats.skipped, errors |-> stats.errors])

\* lines 897-910: the result dict
BatchResult(stats) ==
    Returned([kind |-> "batch", success |-> TRUE, playlist_title |-> stats.title,
              total_videos |-> stats.end_idx - stats.start_idx,
              downloaded |-> stats.downloaded, failed |-> stats.failed,
              skipped |-> stats.skipped, errors |-> stats.errors])

\* the URLs download_playlist is called with: a video, a playlist, a video in a playlist,
\* and URLs that _validate_url rejects
BatchUrls ==
    {U_watch, U_playlist, U_hybrid, U_other, <<>>} \cup LongUrls

MsgSingleVideo ==
    <<"U","R","L"," ","i","s"," ","a"," ","S","i","n","g","l","e"," ","V","i","d","e","o">>

MsgForbiddenSingleVideo ==
    <<"H","T","T","P"," ","E","r","r","o","r"," ","4","0","3",":"," ","F","o","r","b","i","d","d","e","n"," ","(","s","i","n","g","l","e"," ","v","i","d","e","o",")">>

\* how the engine's download of a playlist can end
PlaylistDownloadOutcomes ==
    DownloadOutcomes \cup {Exc("DownloadError", MsgSingleVideo),
                           Exc("DownloadError", MsgForbiddenSingleVideo)}

\* a variant that hands the engine the 0-based start index
PlaylistOpts_zero_based_start(audio_only) ==
    [NoOpts EXCEPT
       !.yes_playlist = TRUE,
       !.outtmpl = IF audio_only
                   THEN "%(playlist_title)s/%(title)s [audio].%(ext)s"
                   ELSE "%(playlist_title)s/%(title)s.%(ext)s",
       !.socket_timeout = timeout,
       !.playlist_start = IF call.video_range # <<>> THEN batch.start_idx ELSE 0,
       !.playlist_end = IF call.video_range # <<>> THEN batch.end_idx ELSE 0]

\* lines 784-812: the options of the playlist download (base_opts, the range, the audio
\* template)
PlaylistOpts(audio_only) ==
    [NoOpts EXCEPT
       !.yes_playlist = TRUE,
       !.outtmpl = IF audio_only
                   THEN "%(playlist_title)s/%(title)s [audio].%(ext)s"
                   ELSE "%(playlist_title)s/%(title)s.%(ext)s",
       !.socket_timeout = timeout,
       !.playlist_start = IF call.video_range # <<>> THEN batch.start_idx + 1 ELSE 0,
       !.playlist_end = IF call.video_range # <<>> THEN batch.end_idx ELSE 0]

\* variant of FallbackOpts that keeps the output template of the playlist download
FallbackOpts_keeping_outtmpl(ydl_opts) ==
    [ydl_opts EXCEPT !.yes_playlist = FALSE]

\* lines 888-890: fallback_opts
FallbackOpts(ydl_opts) ==
    [ydl_opts EXCEPT !.yes_playlist = FALSE, !.outtmpl = "%(title)s.%(ext)s"]

\* download_playlist up to the engine's download (lines 738-770); audio_only changes
\* only the options handed to the engine
CallDownloadPlaylist ==
    /\ pc = "idle"
    /\ gui = GuiInit /\ jobs = NoJobs
    /\ \E url \in BatchUrls, audio_only \in BOOLEAN, fs \in MkdirOutcomes, vr \in VideoRanges,
          cb \in BOOLEAN, n \in SuppliedCounts \cup {0} :
        /\ call' = [Call("download_playlist", url, audio_only) EXCEPT
                        !.video_range = vr, !.has_callback = cb, !.supplied = (n # 0)]
        /\ IF _validate_url(url) # NoResult
           THEN Finish(_validate_url(url)) /\ batch' = NoBatch
           ELSE IF fs = "PermissionError"
           THEN Finish(Raised("YouTubeDownloaderError", "PERMISSION_DENIED", <<>>)) /\ batch' = NoBatch
           ELSE IF fs = "OSError"
           THEN Finish(Raised("YouTubeDownloaderError", "OUTPUT_DIR_ERROR", <<>>)) /\ batch' = NoBatch
           ELSE IF n # 0
           THEN DpRange([title |-> "playlist title", video_count |-> n], vr)
           ELSE EnterGetContentInfo /\ result' = NoResult /\ batch' = NoBatch
    /\ engineCalls' = 0
    /\ obs' = NoObs
    /\ UNCHANGED <<ladderVars, video_info>>
    /\ UNCHANGED <<gui, jobs>>

\* lines 857-864: download_stats after the engine reported `events`; the hook is
\* installed only when a progress callback was supplied
HookedStats(events) ==
    IF call.has_callback THEN playlist_progress_hook(batch, events) ELSE batch

\* lines 881-895: ydl.download([url]) ends as o
DpDownloadEnds(o) ==
    IF o.type = "ok"
    THEN \E events \in EventSeqs :
            /\ Finish(BatchResult(HookedStats(events)))
            /\ batch' = HookedStats(events)
            /\ obs' = [obs EXCEPT !.downloads = @ + 1, !.events = events,
                                  !.opts = PlaylistOpts(call.audio_only)]
    ELSE IF /\ o.type = "DownloadError"
            /\ \/ Contains(Lower(o.msg), T_not_a_playlist)
               \/ Contains(Lower(o.msg), T_single_video)
    THEN \E events \in EventSeqs :
            /\ pc' = "dp_fallback"
            /\ batch' = HookedStats(events)
            /\ obs' = [obs EXCEPT !.downloads = @ + 1, !.failure = o,
                                  !.opts = PlaylistOpts(call.audio_only)]
            /\ UNCHANGED result
    ELSE /\ Finish(HandleDownloadPlaylist(o))
         /\ batch' = NoBatch
         /\ obs' = [obs EXCEPT !.downloads = @ + 1, !.failure = o,
                               !.opts = PlaylistOpts(call.audio_only)]

\* lines 870-895: the engine's playlist download
DpDownload ==
    /\ pc = "dp_download"
    /\ \E o \in PlaylistDownloadOutcomes \cup (IF call.has_callback THEN {HookFault} ELSE {}) :
        IF o = HookFault
        THEN \* lines 873-879: the callback raises on the 'playlist_starting' notification
             /\ Finish(HandleDownloadPlaylist(o))
             /\ batch' = NoBatch
             /\ obs' = [obs EXCEPT !.hook_fault = TRUE]
             /\ UNCHANGED engineCalls
        ELSE /\ engineCalls' = engineCalls + 1
             /\ DpDownloadEnds(o)
    /\ UNCHANGED <<call, ladderVars, video_info>>
    /\ UNCHANGED <<gui, jobs>>

\* lines 886-893: the download without the playlist options
DpFallback ==
    /\ pc = "dp_fallback"
    /\ engineCalls' = engineCalls + 1
    /\ \E o \in PlaylistDownloadOutcomes :
        IF o.type = "ok"
        THEN \E events \in EventSeqs :
                /\ Finish(BatchResult(HookedStats(events)))
                /\ batch' = HookedStats(events)
                /\ obs' = [obs EXCEPT !.downloads = @ + 1, !.events = events,
                                      !.opts = FallbackOpts(@),
                                      !.failure = Exc("none", <<>>)]
        ELSE /\ Finish(HandleDownloadPlaylist(o))
             /\ batch' = NoBatch
             /\ obs' = [obs EXCEPT !.downloads = @ + 1, !.opts = FallbackOpts(@),
                                   !.failure = o]
    /\ UNCHANGED <<call, ladderVars, video_info>>
    /\ UNCHANGED <<gui, jobs>>

----------------------------------------------------------------------------
(* The GUI (src/gui.py): one downloader, a cancellation flag, download threads *)

\* self.root.after(0, callback) (gui.py 755-759, 817-820): the callback is run by the
\* main loop after those scheduled before it
root_after_newest_first(queue, callback) ==
    <<callback>> \o queue

root_after(queue, callback) ==
    Append(queue, callback)

\* the callbacks of thread w that the main loop has not run yet
Pending(w) ==
    {i \in 1..Len(gui.queue) : gui.queue[i][1] = w}

\* gui.py 744-750 and 822: start_download, the command of download_btn (457-458),
\* resets the flag and starts a thread
start_download ==
    /\ pc = "idle" /\ jobs = NoJobs
    /\ gui.download_btn = "normal"
    /\ \E w \in Workers :
        /\ gui.workers[w].pc = "none"
        /\ Pending(w) = {}
        /\ gui' = [gui EXCEPT !.download_cancelled = FALSE,
                              !.workers[w] = [NoWorker EXCEPT !.pc = "init"],
                              !.applied = {c \in @ : c[1] # w}]
    /\ UNCHANGED <<coreVars, jobs>>

\* gui.py 738-742: cancel_download, the command of cancel_btn (472-474) or the request
\* of the caller of a running batch, sets the flag; nothing else is told to the threads
cancel_download ==
    /\ pc = "idle"
    /\ \/ gui.cancel_btn = "normal"
       \/ gui.playlist.pc = "running"
    /\ gui' = [gui EXCEPT
                 !.download_cancelled = TRUE,
                 !.workers = [w \in Workers |->
                                 IF gui.workers[w].pc = "in_flight"
                                 THEN [gui.workers[w] EXCEPT !.cancelled_in_flight = TRUE]
                                 ELSE gui.workers[w]]]
    /\ UNCHANGED <<coreVars, jobs>>

\* gui.py 753-767: the thread schedules the disabling of download_btn and the enabling
\* of cancel_btn, reads output_var and assigns self.downloader.output_dir
download_set_output_dir ==
    /\ pc = "idle"
    /\ \E w \in Workers, output_path \in OutputPaths :
        /\ gui.workers[w].pc = "init"
        /\ IF output_path = ""
           THEN gui' = [gui EXCEPT !.workers[w].pc = "finished",
                                   !.workers[w].reported = "Download Error",
                                   !.queue = root_after(@, <<w, "busy">>)]
           ELSE gui' = [gui EXCEPT !.output_dir = output_path,
                                   !.workers[w].pc = "check",
                                   !.workers[w].output_path = output_path,
                                   !.queue = root_after(@, <<w, "busy">>)]
    /\ UNCHANGED <<coreVars, jobs>>

\* gui.py 769-771: the flag is consulted before the download is started
download_check_cancelled ==
    /\ pc = "idle"
    /\ \E w \in Workers :
        /\ gui.workers[w].pc = "check"
        /\ IF gui.download_cancelled
           THEN gui' = [gui EXCEPT !.workers[w] = [NoWorker EXCEPT !.pc = "finished"]]
           ELSE gui' = [gui EXCEPT !.workers[w].pc = "call"]
    /\ UNCHANGED <<coreVars, jobs>>

\* gui.py 773 and downloader.py 618-621: download_video is entered and takes its local
\* copy of self.output_dir, under which every output template of the call lies
download_call ==
    /\ pc = "idle"
    /\ \E w \in Workers :
        /\ gui.workers[w].pc = "call"
        /\ gui' = [gui EXCEPT !.workers[w].pc = "in_flight",
                              !.workers[w].output_dir = gui.output_dir]
    /\ UNCHANGED <<coreVars, jobs>>

\* what the thread shows when download_video ended as r (gui.py 784-815): the flag is
\* looked at only when download_video returned
Reports(r, download_cancelled) ==
    IF r \in {"True", "False"}
    THEN IF download_cancelled THEN "Cancelled"
         ELSE IF r = "True" THEN "Download Complete" ELSE "Error"
    ELSE IF r = "InvalidURLError" THEN "Invalid URL"
    ELSE IF r = "NetworkTimeoutError" THEN "Network Timeout"
    ELSE IF r = "VideoUnavailableError" THEN "Video Unavailable"
    ELSE IF r = "YouTubeDownloaderError" THEN "Download Error"
    ELSE "Unexpected Error"

\* gui.py 773-815: download_video ends and the thread reports the outcome
download_report ==
    /\ pc = "idle"
    /\ \E w \in Workers, r \in DownloadVideoResults :
        /\ gui.workers[w].pc = "in_flight"
        /\ gui' = [gui EXCEPT
                     !.workers[w] = [NoWorker EXCEPT
                         !.pc = "finished",
                         !.reported = Reports(r, gui.download_cancelled),
                         !.cancelled_in_flight = gui.workers[w].cancelled_in_flight]]
    /\ UNCHANGED <<coreVars, jobs>>

\* gui.py 816-820: the finally clause schedules the enabling of download_btn and the
\* disabling of cancel_btn, and the thread ends
download_exit ==
    /\ pc = "idle"
    /\ \E w \in Workers :
        /\ gui.workers[w].pc = "finished"
        /\ gui' = [gui EXCEPT !.workers[w] = NoWorker,
                              !.queue = root_after(@, <<w, "ready">>)]
    /\ UNCHANGED <<coreVars, jobs>>

\* the main loop runs the callback scheduled first: config(state=...) of both buttons
\* as the thread asked (gui.py 758-759 at its start, 819-820 at its end)
mainloop_after ==
    /\ pc = "idle"
    /\ gui.queue # <<>>
    /\ gui' = [gui EXCEPT
                 !.queue = Tail(@),
                 !.applied = @ \cup {Head(gui.queue)},
                 !.download_btn = IF Head(gui.queue)[2] = "busy"
                                  THEN "disabled" ELSE "normal",
                 !.cancel_btn = IF Head(gui.queue)[2] = "busy"
                                THEN "normal" ELSE "disabled"]
    /\ UNCHANGED <<coreVars, jobs>>

\* a caller thread enters download_playlist (downloader.py 720-724: the method takes
\* no cancellation flag)
playlist_call ==
    /\ pc = "idle" /\ jobs = NoJobs
    /\ gui.playlist.pc = "none"
    /\ gui' = [gui EXCEPT !.playlist = [NoPlaylistJob EXCEPT !.pc = "running"]]
    /\ UNCHANGED <<coreVars, jobs>>

\* downloader.py 881-884: inside the one ydl.download([url]) call the engine starts the
\* next item; playlist_progress_hook (841-855) consults no flag
playlist_item ==
    /\ pc = "idle"
    /\ gui.playlist.pc = "running"
    /\ gui.playlist.started < MaxItems
    /\ gui' = [gui EXCEPT !.playlist.started = @ + 1]
    /\ UNCHANGED <<coreVars, jobs>>

\* downloader.py 897-910: download_playlist returns
playlist_return ==
    /\ pc = "idle"
    /\ gui.playlist.pc = "running"
    /\ gui' = [gui EXCEPT !.playlist = NoPlaylistJob]
    /\ UNCHANGED <<coreVars, jobs>>

NextGui ==
    \/ start_download
    \/ cancel_download
    \/ download_set_output_dir
    \/ download_check_cancelled
    \/ download_call
    \/ download_report
    \/ download_exit
    \/ mainloop_after
    \/ playlist_call
    \/ playlist_item
    \/ playlist_return

----------------------------------------------------------------------------
(* download_playlist invocations running at the same time *)

\* a variant in which download_stats is one dict kept on the downloader
StatsOf_instance_field(b) ==
    "b1"

\* lines 832-856: the download_stats that the playlist_progress_hook of invocation b
\* updates: the local dict of the invocation that defined the hook
StatsOf(b) ==
    b

\* lines 841-855: playlist_progress_hook for the event d, whose error message is msg
HookUpdate(stats, d, msg) ==
    IF d = "finished"
    THEN [stats EXCEPT !.downloaded = @ + 1]
    ELSE IF d = "error"
    THEN [stats EXCEPT !.failed = @ + 1, !.errors = Append(@, msg)]
    ELSE stats

\* lines 720-868: an invocation starts, with or without a progress callback, and creates
\* its download_stats
batch_call ==
    /\ pc = "idle" /\ gui = GuiInit
    /\ \E b \in Batches, cb \in BOOLEAN :
        /\ jobs[b].pc = "none"
        /\ jobs' = [jobs EXCEPT ![b] = [NoJob EXCEPT !.pc = "running", !.has_callback = cb]]
    /\ UNCHANGED <<coreVars, gui>>

\* lines 841-864 and 881-884: during ydl.download the engine reports an event for an item
\* of invocation b (the message of an error names the invocation); the hook, installed
\* only when a callback was supplied, updates download_stats
batch_event ==
    /\ \E b \in Batches, d \in EventKinds :
        /\ jobs[b].pc = "running"
        /\ Len(jobs[b].events) < MaxEvents
        /\ jobs' = [c \in Batches |->
                      [jobs[c] EXCEPT
                         !.events = IF c = b THEN Append(@, d) ELSE @,
                         !.download_stats =
                             IF jobs[b].has_callback /\ c = StatsOf(b)
                             THEN HookUpdate(@, d, b)
                             ELSE @]]
    /\ UNCHANGED <<coreVars, gui>>

\* lines 897-910: invocation b returns its statistics
batch_return ==
    /\ \E b \in Batches :
        /\ jobs[b].pc = "running"
        /\ jobs' = [jobs EXCEPT ![b].pc = "returned",
                                ![b].result = jobs[b].download_stats]
    /\ UNCHANGED <<coreVars, gui>>

\* the caller has taken the result of invocation b
batch_exit ==
    /\ \E b \in Batches :
        /\ jobs[b].pc = "returned"
        /\ jobs' = [jobs EXCEPT ![b] = NoJob]
    /\ UNCHANGED <<coreVars, gui>>

NextJobs ==
    \/ batch_call
    \/ batch_event
    \/ batch_return
    \/ batch_exit

----------------------------------------------------------------------------

Init ==
    /\ gui = GuiInit /\ jobs = NoJobs
    /\ pc = "idle"
    /\ call = Call("none", <<>>, FALSE)
    /\ rung = "none"
    /\ attempts = <<>>
    /\ lastOutcome = "none"
    /\ primaryExc = Ok
    /\ engineCalls = 0
    /\ video_info = NoValue
    /\ batch = NoBatch
    /\ obs = NoObs
    /\ result = NoResult

NextVideo ==
    \/ CallDownloadVideo
    \/ PrimaryAttempt
    \/ AudioFormatFallback
    \/ LowVideoExtractAudio
    \/ MobileClientFallback
    \/ IosClient
    \/ WebClient
    \/ TvEmbeddedClient
    \/ Conservative
    \/ Bypass
    \/ LastResort
    \/ Return

NextInfo ==
    \/ CallGetVideoInfo
    \/ CallGetPlaylistInfo
    \/ CallGetVideoAndPlaylistInfo
    \/ CallGetContentInfo
    \/ GvpiVideo
    \/ GvpiPlaylist
    \/ GciDetect
    \/ GciPlaylist
    \/ GciVideo
    \/ GciFallback
    \/ Return

NextBatch ==
    \/ CallDownloadPlaylist
    \/ GvpiVideo
    \/ GvpiPlaylist
    \/ GciDetect
    \/ GciPlaylist
    \/ GciVideo
    \/ GciFallback
    \/ DpDownload
    \/ DpFallback
    \/ Return

NextUrl ==
    \/ CallClassify
    \/ CallExtractVideoUrl
    \/ Return

NextFormats ==
    \/ CallGetAvailableFormats
    \/ Return

Next ==
    \/ NextVideo
    \/ NextInfo
    \/ NextBatch
    \/ NextUrl
    \/ NextFormats
    \/ NextGui
    \/ NextJobs

\* every entry point
Spec ==
    Init /\ [][Next]_vars

\* download_video alone
SpecVideo ==
    Init /\ [][NextVideo]_vars

\* the metadata resolvers alone
SpecInfo ==
    Init /\ [][NextInfo]_vars

\* download_playlist alone
SpecBatch ==
    Init /\ [][NextBatch]_vars

\* the URL helpers alone
SpecUrl ==
    Init /\ [][NextUrl]_vars

\* the format listing alone
SpecFormats ==
    Init /\ [][NextFormats]_vars

\* the GUI alone
SpecGui ==
    Init /\ [][NextGui]_vars

\* a step of the thread w that start_download started (gui.py 752-820)
WorkerStep(w) ==
    /\ \/ download_set_output_dir
       \/ download_check_cancelled
       \/ download_call
       \/ download_report
       \/ download_exit
    /\ gui'.workers[w] # gui.workers[w]

\* the GUI with its scheduling: every started thread keeps running (download_video
\* returns or raises) and the main loop (root.mainloop) keeps running the callbacks
SpecGuiLive ==
    /\ Init /\ [][NextGui]_vars
    /\ WF_vars(mainloop_after)
    /\ \A w \in Workers : WF_vars(WorkerStep(w))

\* download_playlist invocations running at the same time
SpecJobs ==
    Init /\ [][NextJobs]_vars

----------------------------------------------------------------------------
(* Properties of the error taxonomy and of the fetch ladder *)

\* the error kind of a result, in the terms of the error taxonomy
Kind(r) ==
    IF r.status # "raised" THEN "none"
    ELSE IF r.type = "InvalidURLError" THEN "InvalidURL"
    ELSE IF r.type = "NetworkTimeoutError" THEN "NetworkTimeout"
    ELSE IF r.type = "VideoUnavailableError" THEN "VideoUnavailable"
    ELSE IF r.type = "PlaylistPrivateError" THEN "CollectionPrivateOrUnavailable"
    ELSE IF r.type = "PlaylistTooLargeError" THEN "CollectionTooLarge"
    ELSE IF r.type = "PlaylistError" /\ r.template = "PLAYLIST_EMPTY" THEN "CollectionEmpty"
    ELSE IF r.type = "PlaylistError" /\ r.template = "INVALID_RANGE" THEN "InvalidRange"
    ELSE IF r.type = "PlaylistError" THEN "CollectionGeneric"
    ELSE IF r.template = "HTTP_403_ERROR" THEN "AccessDenied"
    ELSE IF r.template = "DISK_SPACE_ERROR" THEN "InsufficientDiskSpace"
    ELSE IF r.template = "FFMPEG_MISSING" THEN "PostProcessorMissing"
    ELSE IF r.template \in {"DOWNLOAD_CANCELLED", "PLAYLIST_CANCELLED"} THEN "Cancelled"
    ELSE "Unexpected"

HasToken(msg, tokens) ==
    \E t \in tokens : Contains(Lower(msg), t)

IsPrefix(s, t) ==
    /\ Len(s) <= Len(t)
    /\ s = SubSeq(t, 1, Len(s))

VideoLadder ==
    <<"primary", "conservative", "last_resort">>

AudioLadder ==
    <<"primary", "audio_format", "low_video_extract", "android", "ios", "web",
      "tv_embedded", "conservative", "bypass", "last_resort">>

InDownloadVideo ==
    call.op = "download_video"

\* the primary attempt ended with a DownloadError that is not an access denial
PrimaryFailedOtherwise ==
    /\ InDownloadVideo
    /\ primaryExc.type = "DownloadError"
    /\ ~AccessDenial(primaryExc)

\* C1: when the primary attempt of download_video (audio-only or video) fails with a
\* DownloadError whose message has neither '403' nor 'forbidden', the call is over after
\* exactly one engine download, no later strategy has run, and the call raises a typed
\* error made from that failure, not the access-denied one.
C1_PrimaryShortCircuit ==
    PrimaryFailedOtherwise =>
        /\ pc = "done"
        /\ attempts = <<"primary">>
        /\ engineCalls = 1
        /\ result.status = "raised"
        /\ Kind(result) \in {"VideoUnavailable", "NetworkTimeout", "InsufficientDiskSpace",
                             "PostProcessorMissing", "Unexpected"}
        /\ result.details \in {primaryExc.msg, <<>>}

C1_Witness ==
    /\ PrimaryFailedOtherwise
    /\ call.audio_only
    /\ primaryExc.msg = MsgNoSpace
    /\ Kind(result) = "InsufficientDiskSpace"
    /\ engineCalls = 1

\* C2: a strategy after the primary one runs only if the strategy before it failed with
\* an access denial; a strategy that fails with a DownloadError of another kind ends the
\* ladder there, and the call raises that failure's kind, not the access-denied one.
C2_LaterRungsAbortOnOtherFailure ==
    InDownloadVideo =>
        /\ (pc = "ladder" /\ attempts # <<>>) => lastOutcome = "denied"
        /\ lastOutcome = "failed" =>
               /\ pc = "done"
               /\ result.status = "raised"
               /\ Kind(result) # "AccessDenied"

\* C3: for a video request the engine downloads made form a prefix of primary,
\* conservative, last resort, that ends with the first download that succeeds; when the
\* primary attempt is denied and the conservative one succeeds the call returns True
\* after exactly 2 downloads.
C3_VideoLadder ==
    (InDownloadVideo /\ ~call.audio_only) =>
        /\ IsPrefix(attempts, VideoLadder)
        /\ engineCalls = Len(attempts)
        /\ pc = "ladder" => rung = VideoLadder[Len(attempts) + 1]
        /\ lastOutcome = "ok" => (pc = "done" /\ result = Returned([kind |-> "bool", ok |-> TRUE]))
        /\ (AccessDenial(primaryExc) /\ Len(attempts) = 2 /\ lastOutcome = "ok") =>
               /\ attempts = <<"primary", "conservative">>
               /\ engineCalls = 2
               /\ result.status = "returned"
               /\ result.value.ok

C3_Witness ==
    /\ InDownloadVideo
    /\ ~call.audio_only
    /\ primaryExc = Exc("DownloadError", Msg403)
    /\ attempts = <<"primary", "conservative">>
    /\ lastOutcome = "ok"
    /\ pc = "done"
    /\ result.status = "returned"

\* C4: for an audio-only request the engine downloads made form a prefix of the fixed
\* order of the ten strategies, one download per strategy, at most 10 per call, the next
\* strategy being the one after the last attempted, and no strategy runs after a
\* download that succeeded.
C4_AudioLadder ==
    (InDownloadVideo /\ call.audio_only) =>
        /\ IsPrefix(attempts, AudioLadder)
        /\ engineCalls = Len(attempts)
        /\ engineCalls <= 10
        /\ pc = "ladder" => rung = AudioLadder[Len(attempts) + 1]
        /\ lastOutcome = "ok" => (pc = "done" /\ result = Returned([kind |-> "bool", ok |-> TRUE]))

C4_Witness ==
    /\ InDownloadVideo
    /\ call.audio_only
    /\ attempts = AudioLadder
    /\ lastOutcome = "ok"
    /\ pc = "done"
    /\ engineCalls = 10

\* every strategy of the ladder has run and the last one failed with a DownloadError
LadderExhausted ==
    /\ InDownloadVideo
    /\ pc = "done"
    /\ attempts = (IF call.audio_only THEN AudioLadder ELSE VideoLadder)
    /\ lastOutcome \in {"denied", "failed"}

\* C5: when every strategy has failed with a DownloadError, download_video raises (it
\* does not return) an error of the access-denied kind that carries the audio guidance
\* for an audio-only request and the video guidance otherwise, two different texts.
C5_ExhaustedLadderError ==
    LadderExhausted =>
        /\ result.status = "raised"
        /\ Kind(result) = "AccessDenied"
        /\ result.details = (IF call.audio_only THEN AUDIO_DOWNLOAD_FAILED
                                                ELSE VIDEO_DOWNLOAD_FAILED)
        /\ AUDIO_DOWNLOAD_FAILED # VIDEO_DOWNLOAD_FAILED

C5_Witness ==
    /\ LadderExhausted
    /\ call.audio_only
    /\ engineCalls = 10
    /\ result.details = AUDIO_DOWNLOAD_FAILED

\* the primary attempt failed with a message that has an access-denied token and a
\* timeout token
PrimaryDeniedWithTimeout ==
    /\ InDownloadVideo
    /\ primaryExc.type = "DownloadError"
    /\ HasToken(primaryExc.msg, {T_403, T_forbidden})
    /\ HasToken(primaryExc.msg, {T_timeout, T_timed_out})

\* C6: in download_video a DownloadError whose message has both an access-denied token
\* and a timeout token is treated as an access denial: the ladder goes on to its next
\* strategy, and when no strategy succeeds the call raises the access-denied error, not
\* the network timeout.
C6_DeniedBeforeTimeout ==
    /\ PrimaryDeniedWithTimeout =>
        /\ Len(attempts) = 1 =>
               (pc = "ladder" /\ rung = (IF call.audio_only THEN "audio_format"
                                                            ELSE "conservative"))
        /\ (pc = "done" /\ lastOutcome \in {"denied", "failed"}) =>
               (Kind(result) = "AccessDenied" /\ LadderExhausted)
    /\ (InDownloadVideo /\ lastOutcome = "denied") =>
        \/ pc = "ladder"
        \/ LadderExhausted /\ Kind(result) = "AccessDenied"

C6_Witness ==
    /\ PrimaryDeniedWithTimeout
    /\ primaryExc.msg = Msg403Timeout
    /\ pc = "done"
    /\ lastOutcome = "denied"
    /\ Kind(result) = "AccessDenied"

InResolver ==
    call.op \in {"get_video_info", "get_playlist_info"}

\* C7: get_video_info and get_playlist_info classify an engine failure whose message has
\* '403' or 'forbidden' as access denied, before the unavailable and timeout rules.
C7_ResolverDeniedFirst ==
    (/\ InResolver
     /\ pc = "done"
     /\ result.status = "raised"
     /\ result.inner_type = ""
     /\ HasToken(result.details, {T_403, T_forbidden})) =>
        Kind(result) = "AccessDenied"

\* the kind of the first rule a message matches, in the order unavailable/private,
\* timeout, disk space, post-processing tool, generic
FirstRule(msg, with_ffmpeg_rule) ==
    IF HasToken(msg, {T_private_video, T_unavailable}) THEN "VideoUnavailable"
    ELSE IF HasToken(msg, {T_timeout, T_timed_out}) THEN "NetworkTimeout"
    ELSE IF HasToken(msg, {T_no_space_left}) THEN "InsufficientDiskSpace"
    ELSE IF HasToken(msg, {T_ffmpeg}) /\ with_ffmpeg_rule THEN "PostProcessorMissing"
    ELSE "Unexpected"

\* C8 as stated: the kind raised for a DownloadError of download_video is that of the
\* first matching rule in the order unavailable/private, timeout, disk space,
\* post-processing tool, generic, for audio-only and video requests alike.
C8_PrecedenceInBothModes ==
    (PrimaryFailedOtherwise /\ pc = "done") =>
        Kind(result) = FirstRule(primaryExc.msg, TRUE)

\* C8 amended: the same order, the post-processing-tool rule applying to audio-only
\* requests alone; for a video request a message that matches that rule and no earlier
\* one gives the generic kind.
C8_PrecedenceByMode ==
    (PrimaryFailedOtherwise /\ pc = "done") =>
        Kind(result) = FirstRule(primaryExc.msg, call.audio_only)

C8_Witness ==
    /\ PrimaryFailedOtherwise
    /\ pc = "done"
    /\ ~call.audio_only
    /\ primaryExc.msg = MsgFfmpeg
    /\ Kind(result) = "Unexpected"

EntryPoints ==
    {"get_video_info", "get_playlist_info", "get_video_and_playlist_info",
     "get_content_info", "download_video", "download_playlist"}

\* the host of the URL is one of YOUTUBE_DOMAINS
DomainAllowed(url) ==
    \E i \in 1..Len(YOUTUBE_DOMAINS) : Lower(urlparse(url).netloc) = YOUTUBE_DOMAINS[i]

\* C9: for a URL whose domain is outside the allowlist or that is longer than 2048
\* characters, each of the six entry points makes no engine invocation and fails with
\* InvalidURLError.
C9_InvalidUrlBeforeEngine ==
    (/\ call.op \in EntryPoints
     /\ ~DomainAllowed(call.url) \/ Len(call.url) > MAX_URL_LENGTH) =>
        /\ engineCalls = 0
        /\ pc = "done" => Kind(result) = "InvalidURL"

HasIndicator(url) ==
    HasToken(url, {I_list_eq, I_playlist_q, I_amp_list_eq, I_playlist_slash})

HasVideoMarker(url) ==
    HasToken(url, {M_watch_v, M_youtu_be_slash})

\* the classification callers derive from the two URL tests, hybrid first
Classification(v) ==
    IF v.video_in_playlist THEN "VideoInCollection"
    ELSE IF v.playlist THEN "Collection"
    ELSE "Video"

\* C10: a URL of an allowlisted domain is classified VideoInCollection when it has a
\* collection indicator and a video marker ('watch?v=' or 'youtu.be/'), Collection when
\* it has an indicator and no video marker, Video otherwise, the substring tests being
\* made without regard to case; the classification is that function of the URL string.
C10_Classification ==
    (call.op = "classify" /\ pc = "done" /\ DomainAllowed(call.url)) =>
        /\ result.value.valid
        /\ Classification(result.value) =
               (IF HasIndicator(call.url) /\ HasVideoMarker(call.url) THEN "VideoInCollection"
                ELSE IF HasIndicator(call.url) THEN "Collection"
                ELSE "Video")

C10_Witness ==
    /\ call.op = "classify"
    /\ pc = "done"
    /\ call.url = U_upper
    /\ DomainAllowed(call.url)
    /\ Classification(result.value) = "VideoInCollection"

----------------------------------------------------------------------------
(* Properties of _extract_video_url_from_playlist *)

Extracted ==
    /\ call.op = "_extract_video_url_from_playlist"
    /\ pc = "done"

\* C11: _extract_video_url_from_playlist is idempotent: applied to its own result it
\* returns that result.
C11_ExtractIdempotent ==
    Extracted =>
        _extract_video_url_from_playlist(result.value.url) = result.value.url

\* the video identifier a URL carries: its 'v' query parameter, else the single path
\* segment of a youtu.be short link; <<>> when it carries none
VideoIdOf(url) ==
    IF FirstParam(urlparse(url).query, <<"v">>) # <<>>
    THEN FirstParam(urlparse(url).query, <<"v">>)
    ELSE IF /\ Lower(urlparse(url).netloc) = D_youtu_be
            /\ Len(urlparse(url).path) > 1
            /\ Find(From(urlparse(url).path, 2), "/") = 0
    THEN From(urlparse(url).path, 2)
    ELSE <<>>

\* C12: for a URL classified as a video in a playlist that carries a video identifier
\* (as 'v' parameter or as short-link path segment), the URL returned is a minimal
\* single-video URL with that identifier and without playlist indicator, so it is not
\* classified as a playlist; the URL given is returned only when it carries no identifier.
C12_ExtractMinimalVideoUrl ==
    (Extracted /\ _is_video_in_playlist_url(call.url) /\ VideoIdOf(call.url) # <<>>) =>
        /\ result.value.url \in {S_https_www_youtube_com_watch_v \o VideoIdOf(call.url),
                                 S_https_youtu_be \o VideoIdOf(call.url)}
        /\ ~HasIndicator(result.value.url)
        /\ ~_is_playlist_url(result.value.url)
        /\ result.value.url # call.url

----------------------------------------------------------------------------
(* Properties of get_playlist_info *)

\* get_playlist_info is over and the engine reported a playlist of obs.reported.count entries
PlaylistReported ==
    /\ call.op = "get_playlist_info"
    /\ pc = "done"
    /\ obs.reported.type = "info"
    /\ obs.reported.tag = "playlist"

\* C13: when the engine reports more than 200 entries get_playlist_info raises
\* PlaylistTooLargeError carrying the count and the threshold 200; for 1..200 entries it
\* does not fail.
C13_TooLargeIsTyped ==
    PlaylistReported =>
        /\ obs.reported.count > 200 =>
               /\ Kind(result) = "CollectionTooLarge"
               /\ result.count = obs.reported.count
               /\ result.threshold = 200
        /\ obs.reported.count \in 1..200 => result.status = "returned"

\* C14: when the engine reports a playlist without entries get_playlist_info raises
\* the empty-playlist error, not a generic playlist error, the private/unavailable one
\* or an unexpected one.
C14_EmptyIsTyped ==
    (PlaylistReported /\ obs.reported.count = 0) =>
        /\ Kind(result) = "CollectionEmpty"
        /\ Kind(result) \notin {"CollectionGeneric", "CollectionPrivateOrUnavailable", "Unexpected"}

\* C15: for a playlist of n entries, 1 <= n <= 200, get_playlist_info reports
\* n * 20 / 60 whole minutes, 20 being the midpoint of the sleep bounds 15 and 25;
\* 10 minutes for 30 entries.
C15_EstimatedMinutes ==
    (PlaylistReported /\ obs.reported.count \in 1..200) =>
        /\ result.status = "returned"
        /\ result.value.video_count = obs.reported.count
        /\ result.value.estimated_time_minutes = (obs.reported.count * 20) \div 60
        /\ obs.reported.count = 30 => result.value.estimated_time_minutes = 10

C15_Witness ==
    /\ PlaylistReported
    /\ obs.reported.count = 30
    /\ result.status = "returned"
    /\ result.value.estimated_time_minutes = 10

----------------------------------------------------------------------------
(* Properties of _get_available_formats *)

FormatsListed ==
    /\ call.op = "_get_available_formats"
    /\ pc = "done"

\* the entry has both a height and an extension
BothPresent(f) ==
    f.dict /\ f.has_height /\ f.has_ext

\* the entry is a video format (its vcodec is not 'none') with a non-zero height and a
\* non-empty extension
Listable(f) ==
    BothPresent(f) /\ f.vcodec # "none" /\ f.height # 0 /\ f.ext # <<>>

\* the first of the entries idx of fs that is shown as label
FirstSeen(fs, idx, label) ==
    CHOOSE i \in idx :
        /\ FormatLabel(fs[i].height, fs[i].ext) = label
        /\ \A j \in idx : FormatLabel(fs[j].height, fs[j].ext) = label => i <= j

\* out lists the (height, ext) pairs of the entries idx of fs, each once, in first-seen
\* order, and nothing else
ListsEachOnce(fs, idx, out) ==
    /\ \A i \in idx :
        Cardinality({k \in DOMAIN out : out[k] = FormatLabel(fs[i].height, fs[i].ext)}) = 1
    /\ \A k \in DOMAIN out : \E i \in idx : out[k] = FormatLabel(fs[i].height, fs[i].ext)
    /\ Len(out) = Cardinality({<<fs[i].height, fs[i].ext>> : i \in idx})
    /\ \A k, l \in DOMAIN out :
        k < l => FirstSeen(fs, idx, out[k]) < FirstSeen(fs, idx, out[l])

L_720p_mp4 ==
    <<"7","2","0","p"," ","-"," ","m","p","4">>

L_480p_webm ==
    <<"4","8","0","p"," ","-"," ","w","e","b","m">>

\* C16 (as stated): for every list of engine formats the listing holds each
\* (height, ext) pair of the formats that have both fields exactly once, in first-seen
\* order, and no entry for a format without height or without extension.
C16_DedupOfAllFormats ==
    FormatsListed =>
        ListsEachOnce(obs.formats,
                      {i \in DOMAIN obs.formats : BothPresent(obs.formats[i])},
                      result.value.formats)

\* C16 (amended): the listing holds each (height, ext) pair of the video formats
\* (vcodec other than 'none') with a non-zero height and a non-empty extension exactly
\* once, in first-seen order, and nothing else;
\* [(720,mp4),(720,mp4),(480,webm),(None,mp4)] gives ["720p - mp4", "480p - webm"].
C16_DedupOfVideoFormats ==
    FormatsListed =>
        /\ ListsEachOnce(obs.formats,
                         {i \in DOMAIN obs.formats : Listable(obs.formats[i])},
                         result.value.formats)
        /\ obs.formats = <<F_720_mp4, F_720_mp4, F_480_webm, F_None_mp4>>
               => result.value.formats = <<L_720p_mp4, L_480p_webm>>

C16_Witness ==
    /\ FormatsListed
    /\ obs.formats = <<F_720_mp4, F_720_mp4, F_480_webm, F_None_mp4>>
    /\ result.value.formats = <<L_720p_mp4, L_480p_webm>>

----------------------------------------------------------------------------
(* Properties of download_playlist *)

\* download_playlist has applied the index range (s, e) of the call to the
\* playlist_info['video_count'] it works with
RangeChecked ==
    /\ call.op = "download_playlist"
    /\ call.video_range # <<>>
    /\ batch.video_count > 0

\* C17: with n = playlist_info['video_count'] and the 1-based inclusive range (s, e),
\* download_playlist raises the invalid-range PlaylistError before any download by the
\* engine if s > e or s > n; otherwise it raises no such error and goes on with the
\* items max(1, s) .. min(e, n).
C17_RangeValidation ==
    RangeChecked =>
        IF \/ call.video_range[1] > call.video_range[2]
           \/ call.video_range[1] > batch.video_count
        THEN /\ pc = "done"
             /\ Kind(result) = "InvalidRange"
             /\ obs.downloads = 0
        ELSE /\ Kind(result) # "InvalidRange"
             /\ batch.start_idx = Max(1, call.video_range[1]) - 1
             /\ batch.end_idx = Min(call.video_range[2], batch.video_count)
             /\ result.status = "returned" =>
                    result.value.total_videos =
                        Min(call.video_range[2], batch.video_count)
                            - Max(1, call.video_range[1]) + 1

\* the range (1, 300) on 2 items is accepted as (1, 2)
C17_Witness ==
    /\ RangeChecked
    /\ call.video_range = <<1, 300>>
    /\ batch.video_count = 2
    /\ batch.end_idx = 2
    /\ pc = "done"
    /\ result.status = "returned"
    /\ result.value.total_videos = 2

\* the range (2, 1) is rejected before any download
C17_RejectedRange ==
    /\ RangeChecked
    /\ call.video_range = <<2, 1>>
    /\ Kind(result) = "InvalidRange"
    /\ obs.downloads = 0

\* the number of "finished" events among events
Finished(events) ==
    Cardinality({i \in DOMAIN events : events[i] = "finished"})

\* download_playlist, called without a range for a playlist of batch.video_count items,
\* has returned after one download by the engine in which every item finished and none
\* failed
AllItemsSucceeded ==
    /\ call.op = "download_playlist"
    /\ pc = "done"
    /\ result.status = "returned"
    /\ call.video_range = <<>>
    /\ obs.downloads = 1
    /\ \A i \in DOMAIN obs.events : obs.events[i] # "error"
    /\ Finished(obs.events) = batch.video_count

\* C18: when every one of the n items of a playlist is downloaded successfully (no
\* range), download_playlist returns success with total_videos = n, downloaded = n and
\* failed = 0, with or without a progress callback.
C18_AllSucceededStats ==
    AllItemsSucceeded =>
        /\ result.value.success
        /\ result.value.total_videos = batch.video_count
        /\ result.value.downloaded = batch.video_count
        /\ result.value.failed = 0

\* download_playlist, called without playlist_info and with no range or a range whose
\* start is not beyond its end, found that get_content_info raised an exception (not the
\* user's interrupt)
ResolutionFailed ==
    /\ call.op = "download_playlist"
    /\ ~call.supplied
    /\ obs.info_failed
    /\ result.type # "KeyboardInterrupt"
    /\ \/ call.video_range = <<>>
       \/ call.video_range[1] <= call.video_range[2]

\* C19: when the metadata resolution of download_playlist fails the call does not
\* end there: it goes on with the placeholder info (unknown title, 1 video) and the
\* engine's playlist download is invoked, also when the request carries an index range.
C19_PlaceholderContinues ==
    ResolutionFailed =>
        /\ ~(pc = "done" /\ obs.downloads = 0)
        /\ pc = "dp_download" => (batch.title = "Unknown Playlist" /\ batch.video_count = 1)

\* the playlist download of download_playlist failed on a message that says the URL is
\* no playlist
NotAPlaylistFailure(e) ==
    /\ e.type = "DownloadError"
    /\ HasToken(e.msg, {T_not_a_playlist, T_single_video})

\* C20: when the engine's playlist download fails with a message containing 'not a
\* playlist' or 'single video', download_playlist makes exactly one more download, without
\* the playlist option and with the output template of a single video, and ends with
\* it whether it fails or not; no other failure leads to a second download, and no call
\* makes more than 2 downloads.
C20_SingleFallbackDownload ==
    [][call'.op = "download_playlist" =>
        /\ obs'.downloads <= 2
        /\ (obs'.downloads = 1 /\ NotAPlaylistFailure(obs'.failure)) => pc' # "done"
        /\ (obs.downloads = 1 /\ NotAPlaylistFailure(obs.failure)) =>
               /\ obs'.downloads = 2
               /\ pc' = "done"
        /\ obs'.downloads = 2 =>
               /\ obs.downloads = 1
               /\ NotAPlaylistFailure(obs.failure)
               /\ ~obs'.opts.yes_playlist
               /\ obs'.opts.outtmpl = "%(title)s.%(ext)s"]_vars

\* the second download was made and failed too
C20_Witness ==
    /\ call.op = "download_playlist"
    /\ pc = "done"
    /\ obs.downloads = 2
    /\ result.status = "raised"
    /\ obs.opts.outtmpl = "%(title)s.%(ext)s"

\* the latest download of download_playlist failed on a message that has '403' or
\* 'forbidden' in it
BatchDenied ==
    /\ call.op = "download_playlist"
    /\ obs.failure.type = "DownloadError"
    /\ HasToken(obs.failure.msg, {T_403, T_forbidden})

\* C21 (as stated): a download of download_playlist that fails with '403'/'forbidden'
\* ends the call: exactly one download has been made, nothing is returned, and the
\* access-denied error with the guidance and the engine's message is raised.
C21_DeniedAfterOneDownload ==
    BatchDenied =>
        /\ pc = "done"
        /\ obs.downloads = 1
        /\ Kind(result) = "AccessDenied"
        /\ result.template = "HTTP_403_ERROR"
        /\ result.details = obs.failure.msg

\* C21 (amended): a download of download_playlist that fails with '403'/'forbidden' is
\* the call's last one and the access-denied error with the guidance and the engine's
\* message is raised, unless it is the playlist download and its message also says
\* 'not a playlist' or 'single video' (the single-video download is made then); the
\* denied download is the first one, or the second one when it is the single-video
\* download.
C21_DeniedDownloadIsLast ==
    (BatchDenied /\ ~(obs.downloads = 1 /\ NotAPlaylistFailure(obs.failure))) =>
        /\ pc = "done"
        /\ obs.downloads \in {1, 2}
        /\ obs.downloads = 2 => obs.opts = FallbackOpts(obs.opts)
        /\ Kind(result) = "AccessDenied"
        /\ result.template = "HTTP_403_ERROR"
        /\ result.details = obs.failure.msg

\* the playlist download itself is denied
C21_Witness ==
    /\ BatchDenied
    /\ pc = "done"
    /\ obs.downloads = 1
    /\ obs.failure.msg = Msg403
    /\ Kind(result) = "AccessDenied"
    /\ result.details = Msg403

\* the output templates that carry the audio suffix
AudioTemplates ==
    {"%(title)s [audio].%(ext)s", "%(playlist_title)s/%(title)s [audio].%(ext)s"}

\* C22: every download the engine is asked to make for an audio-only request (each
\* strategy of download_video, the playlist download and its single-video fallback) has
\* the output template with the '[audio]' suffix, never the plain-title one.
C22_AudioTemplate ==
    (call.op \in {"download_video", "download_playlist"} /\ call.audio_only
        /\ obs.downloads >= 1) =>
        /\ obs.opts.outtmpl \in AudioTemplates
        /\ obs.opts.outtmpl # "%(title)s.%(ext)s"

\* C23: an exception raised by the caller's progress callback while a progress event is
\* relayed does not abort a transfer that is going well: download_video and
\* download_playlist still end with the success the engine would have produced.
C23_HookFaultHarmless ==
    (call.op \in {"download_video", "download_playlist"} /\ obs.hook_fault) =>
        /\ pc = "done" => result.status = "returned"
        /\ Kind(result) = "none"

----------------------------------------------------------------------------
(* Properties of get_video_and_playlist_info and get_content_info *)

\* get_video_and_playlist_info was called with a URL that _validate_url accepts
InHybridResolver ==
    /\ call.op = "get_video_and_playlist_info"
    /\ pc # "idle"
    /\ _validate_url(call.url) = NoResult

C24_VideoFailed ==
    /\ InHybridResolver
    /\ pc = "done"
    /\ engineCalls = 1
    /\ result.template = "COULD_NOT_EXTRACT_BOTH"

\* get_content_info, called with a URL that is no video in a playlist, has ended after
\* the engine reported a type tag in metadata-only mode ("absent": no '_type' key)
ContentDetected ==
    /\ call.op = "get_content_info"
    /\ pc = "done"
    /\ ~_is_video_in_playlist_url(call.url)
    /\ obs.detected # ""

\* C25: for a URL that is no video in a playlist, get_content_info follows the type
\* tag the engine reports: with the tag 'playlist' it returns playlist info or raises an
\* error and never returns video info; with another tag it returns video info marked
\* is_playlist = False or raises an error, and never returns playlist info.
C25_ShapeFollowsTag ==
    (ContentDetected /\ result.status = "returned") =>
        IF obs.detected = "playlist"
        THEN result.value.kind = "playlist"
        ELSE /\ result.value.kind = "video"
             /\ result.value.has_is_playlist

----------------------------------------------------------------------------
(* Cancellation and concurrent workers (SpecGui) *)

\* a step in which a thread enters download_video
DownloadStarts(w) ==
    /\ gui.workers[w].pc # "in_flight"
    /\ gui'.workers[w].pc = "in_flight"

\* a step in which the engine starts a further item of the batch
BatchItemStarts ==
    gui'.playlist.started > gui.playlist.started

\* C26: while the cancellation flag is set, no step starts a download that had not
\* started and no step starts a further batch item.
C26_NoStartOnceCancelled ==
    [][gui.download_cancelled =>
          /\ \A w \in Workers : ~DownloadStarts(w)
          /\ ~BatchItemStarts]_vars

\* C27: a download during whose flight the cancellation flag was set is reported as
\* Cancelled, however download_video ended.
C27_CancelledTakesPrecedence ==
    \A w \in Workers :
        (gui.workers[w].pc = "finished" /\ gui.workers[w].cancelled_in_flight)
            => gui.workers[w].reported = "Cancelled"

\* C28: a download in flight writes under the directory its own caller requested, also
\* when another thread is running on the same downloader.
C28_OwnOutputDir ==
    \A w \in Workers :
        gui.workers[w].pc = "in_flight"
            => gui.workers[w].output_dir = gui.workers[w].output_path

----------------------------------------------------------------------------
(* Timeouts *)

\* C29: whatever entry point is running, the options of the engine invocation made last
\* carry socket_timeout equal to the downloader's timeout (the downloader has no other
\* timeout state: nothing in it sets a process-wide default).
C29_TimeoutInEveryInvocation ==
    engineCalls > 0 => obs.opts.socket_timeout = timeout

\* the minimal last-resort options have been used for an invocation and carried the
\* timeout
C29_WitnessLastResort ==
    /\ Len(attempts) > 0
    /\ attempts[Len(attempts)] = "last_resort"
    /\ obs.opts.socket_timeout = timeout

----------------------------------------------------------------------------
(* The index range with start = end *)

\* x clamped to [1, n]
Clamp(x, n) ==
    Max(1, Min(x, n))

\* C30 as stated: whenever start >= end after clamping both to [1, itemCount], in
\* particular for start = end, download_playlist fails with the invalid-range error
\* before any download by the engine.
C30_RejectsStartNotBelowEnd ==
    (RangeChecked /\ Clamp(call.video_range[1], batch.video_count)
                        >= Clamp(call.video_range[2], batch.video_count))
        => /\ pc = "done"
           /\ Kind(result) = "InvalidRange"
           /\ obs.downloads = 0

\* C30, amended: download_playlist fails with the invalid-range error, before any
\* download by the engine, exactly when the 0-based start index start - 1 is not below
\* the exclusive end index min(end, itemCount); a range whose start equals its end and
\* lies within the collection is accepted and selects that one item.
C30_RejectsEmptySelection ==
    RangeChecked =>
        /\ (pc = "done" /\ Kind(result) = "InvalidRange")
              <=> Max(0, call.video_range[1] - 1)
                      >= Min(batch.video_count, call.video_range[2])
        /\ Kind(result) = "InvalidRange" => obs.downloads = 0
        /\ (/\ call.video_range[1] = call.video_range[2]
            /\ call.video_range[1] <= batch.video_count)
              => batch.end_idx - batch.start_idx = 1

\* the range (3, 3) on a collection of at least 3 items selected item 3 and the engine
\* was asked to download
C30_Witness ==
    /\ RangeChecked
    /\ call.video_range = <<3, 3>>
    /\ batch.video_count >= 3
    /\ batch.start_idx = 2
    /\ batch.end_idx = 3
    /\ obs.downloads > 0

----------------------------------------------------------------------------
(* The range handed to the engine *)

\* a step in which the engine is asked to download for download_playlist
BatchDownloadStep ==
    /\ call.op = "download_playlist"
    /\ pc \in {"dp_download", "dp_fallback"}
    /\ obs'.downloads = obs.downloads + 1

\* C31: every download the engine is asked to make for a range (s, e) accepted on a
\* collection of n items is given playlist_start = max(1, s) and playlist_end = min(n, e),
\* and a returned result has total_videos = playlist_end - playlist_start + 1; without a
\* range neither bound is given and a returned result has total_videos = n.
C31_RangeConversion ==
    [][BatchDownloadStep =>
          IF call.video_range # <<>>
          THEN /\ obs'.opts.playlist_start = Max(1, call.video_range[1])
               /\ obs'.opts.playlist_end = Min(batch.video_count, call.video_range[2])
               /\ result'.status = "returned" =>
                      result'.value.total_videos =
                          obs'.opts.playlist_end - obs'.opts.playlist_start + 1
          ELSE /\ obs'.opts.playlist_start = 0
               /\ obs'.opts.playlist_end = 0
               /\ result'.status = "returned" =>
                      result'.value.total_videos = batch.video_count]_vars

\* the range (0, 2) on a collection of 30 items was downloaded as the items 1 .. 2
C31_Witness ==
    /\ call.op = "download_playlist"
    /\ call.video_range = <<0, 2>>
    /\ batch.video_count > 2
    /\ obs.opts.playlist_start = 1
    /\ obs.opts.playlist_end = 2
    /\ result.status = "returned"
    /\ result.value.total_videos = 2

----------------------------------------------------------------------------
(* The statistics of a batch *)

\* the number of "error" events among events
Errored(events) ==
    Cardinality({i \in DOMAIN events : events[i] = "error"})

\* C32: in a run of download_playlist failed equals the number of error messages kept,
\* every 'finished' event the engine reported has raised downloaded by exactly 1, every
\* 'error' event has raised failed by exactly 1, and no other event has changed a
\* counter (stated for the run that returns after the one playlist download).
C32_StatsFollowEvents ==
    (call.op = "download_playlist" /\ pc = "done" /\ result.status = "returned"
        /\ obs.downloads = 1) =>
        /\ batch.failed = Len(batch.errors)
        /\ result.value.failed = Len(result.value.errors)
        /\ result.value.downloaded = Finished(obs.events)
        /\ result.value.failed = Errored(obs.events)

----------------------------------------------------------------------------
(* Batches running at the same time *)

\* the statistics the hook of an invocation keeps for the events evs of its own items
RECURSIVE OwnStats(_, _)
OwnStats(b, evs) ==
    IF evs = <<>>
    THEN NewStats
    ELSE HookUpdate(OwnStats(b, SubSeq(evs, 1, Len(evs) - 1)), evs[Len(evs)], b)

\* C33: with two download_playlist invocations running at the same time, the counters
\* and the error list of each invocation, and of the result it returns, are those of the
\* events of its own items (none at all without a progress callback); no event of the
\* other invocation has changed them.
C33_BatchStateIsolation ==
    \A b \in Batches :
        /\ jobs[b].pc # "none" =>
               jobs[b].download_stats =
                   IF jobs[b].has_callback THEN OwnStats(b, jobs[b].events) ELSE NewStats
        /\ jobs[b].pc = "returned" =>
               /\ jobs[b].result = jobs[b].download_stats
               /\ \A i \in DOMAIN jobs[b].result.errors : jobs[b].result.errors[i] = b

\* both invocations ran with a callback, each had an item fail and one finish, and b1
\* returned while b2 was still running
C33_Witness ==
    /\ jobs["b1"].pc = "returned"
    /\ jobs["b2"].pc = "running"
    /\ jobs["b1"].has_callback /\ jobs["b2"].has_callback
    /\ jobs["b1"].events = <<"error", "finished">>
    /\ jobs["b2"].events = <<"finished", "error">>
    /\ jobs["b1"].result.errors = <<"b1">>
    /\ jobs["b1"].result.downloaded = 1

----------------------------------------------------------------------------
(* Oversized collections and the item count of download_playlist *)

\* download_playlist runs without a range and without playlist_info, and the engine's
\* latest answer to its metadata resolution was a playlist of obs.reported.count entries
BatchResolved ==
    /\ call.op = "download_playlist"
    /\ ~call.supplied
    /\ call.video_range = <<>>
    /\ obs.reported.type = "info"
    /\ obs.reported.tag = "playlist"

\* C34: download_playlist called without a range and without playlist_info asks the
\* engine for no download when the collection has more than 200 items, that is when its
\* metadata resolution found more than 200 entries and failed on the size check.
C34_OversizedNotDownloaded ==
    (BatchResolved /\ obs.info_failed
        /\ obs.reported.count > PLAYLIST_SIZE_WARNING_THRESHOLD)
        => obs.downloads = 0

\* the metadata resolution of download_playlist returned the info of a playlist, or of
\* a video in a playlist, whose latest extraction reported obs.reported.count entries,
\* and the index range has been applied
CollectionResolved ==
    /\ call.op = "download_playlist"
    /\ ~call.supplied
    /\ obs.resolved \in {"playlist", "video_in_playlist"}
    /\ obs.reported.type = "info"
    /\ obs.reported.tag = "playlist"
    /\ batch.video_count > 0

\* C35: when the metadata resolution of download_playlist succeeds for a playlist URL or
\* for the URL of a video in a playlist of n items, the item count the range is clamped
\* with is n, and without a range the returned total_videos is n, not the placeholder 1.
C35_CountIsResolved ==
    CollectionResolved =>
        /\ batch.video_count = obs.reported.count
        /\ (call.video_range = <<>> /\ result.status = "returned")
               => result.value.total_videos = obs.reported.count

\* C36: whenever download_playlist returns, the result has success = True, also when
\* nothing was downloaded and every item failed, and skipped = 0.
C36_ReturnedMeansSuccess ==
    (call.op = "download_playlist" /\ pc = "done" /\ result.status = "returned") =>
        /\ result.value.success
        /\ result.value.skipped = 0

\* both items of a playlist of 2 failed and download_playlist returned success
C36_Witness ==
    /\ call.op = "download_playlist"
    /\ pc = "done"
    /\ result.status = "returned"
    /\ result.value.total_videos = 2
    /\ result.value.downloaded = 0
    /\ result.value.failed = 2
    /\ obs.events = <<"error", "error">>
    /\ result.value.success

----------------------------------------------------------------------------
(* The options of the strategies of download_video *)

\* C37: whichever strategies have run before, the options handed to the engine by the
\* latest strategy are that strategy's own entries on top of the ydl_opts download_video
\* built for the request (nothing a former strategy replaced shows in them), and the
\* ydl_opts themselves are still as they were built.
C37_LadderOptionIsolation ==
    (call.op = "download_video" /\ Len(attempts) > 0) =>
        /\ obs.ydl_opts = VideoOpts(call.audio_only)
        /\ obs.opts = RungOpts(attempts[Len(attempts)], VideoOpts(call.audio_only))

\* the conservative strategy of an audio request ran after the client strategies: it has
\* its own delay, retries and User-Agent, and the format, post-processor and (absent)
\* player client of the request
C37_Witness ==
    /\ call.op = "download_video"
    /\ call.audio_only
    /\ Len(attempts) = 8
    /\ attempts[7] = "tv_embedded"
    /\ attempts[8] = "conservative"
    /\ obs.opts.sleep_interval = 10
    /\ obs.opts.retries = 1
    /\ obs.opts.user_agent = "Firefox/91.0"
    /\ obs.opts.format = "bestaudio/best"
    /\ obs.opts.postprocessors = "mp3 192"
    /\ obs.opts.player_client = ""
    /\ obs.opts.keepvideo = "False"

----------------------------------------------------------------------------
(* The user's interrupt *)

\* the latest download the engine was asked to make, by a strategy of download_video or
\* by download_playlist, ended with KeyboardInterrupt
DownloadInterrupted ==
    /\ call.op \in {"download_video", "download_playlist"}
    /\ obs.downloads >= 1
    /\ obs.failure.type = "KeyboardInterrupt"

\* C38: a KeyboardInterrupt that ends a download of the engine ends the call: no further
\* strategy and no single-video fallback is tried and the call raises the cancelled
\* error, not an error classified from a failure.
C38_InterruptCancels ==
    DownloadInterrupted =>
        /\ pc = "done"
        /\ result.status = "raised"
        /\ Kind(result) = "Cancelled"
        /\ result.type = "YouTubeDownloaderError"
        /\ result.template = IF call.op = "download_video"
                             THEN "DOWNLOAD_CANCELLED" ELSE "PLAYLIST_CANCELLED"
        /\ call.op = "download_video" => engineCalls = Len(attempts)

\* the third strategy of an audio request was interrupted
C38_Witness ==
    /\ DownloadInterrupted
    /\ call.op = "download_video"
    /\ attempts = <<"primary", "audio_format", "low_video_extract">>
    /\ pc = "done"
    /\ result.template = "DOWNLOAD_CANCELLED"

----------------------------------------------------------------------------
(* The cycle of a download thread (SpecGuiLive) *)

\* a step in which the main loop runs the callback the finally clause of thread w
\* scheduled
ReadyApplied(w) ==
    /\ <<w, "ready">> \notin gui.applied
    /\ <<w, "ready">> \in gui'.applied

====
